---- MODULE Spec2Model ----
(***************************************************************************)
(* Release-notes generator and backfill script of                          *)
(* Revive-Home/revive-api-docs.                                            *)
(*                                                                         *)
(* Text is a sequence of one-character strings, so that every regular      *)
(* expression of the scripts is an operator over characters.  Positions    *)
(* are 1-based here and 0-based in the JavaScript source.  A regular       *)
(* expression is a chain of matchers: each takes the position the match    *)
(* has reached and gives the position after its own part, or NoMatch.      *)
(***************************************************************************)
EXTENDS Integers, Sequences, FiniteSets, TLC

VARIABLES
    pc,         \* where the run is: "loop", "done", "error"; "call" and on for a helper;
                \* "start", "release" in a backfill run; "fetch", "wait" and on in ghJson
    grouped,    \* the entries pushed so far, by repository
    log,        \* the pull requests fetched so far: whether each was kept, and its summary
    mdx,        \* release-notes/<version>.mdx: its lines, or NoFile
    indexMdx,   \* release-notes/index.mdx: the group tag and the cards
    docsJson,   \* docs.json: the Releases group and the pages of the year
    overwrite,  \* RELEASE_OVERWRITE is 'true'
    fnArg,      \* the argument of the helper that is applied
    fnRes,      \* its result
    now,        \* the year the clock shows, counted from the year of the first run
    call,       \* the ghJson call of the backfill script: its requests and waits
    run         \* the backfill run: the files on disk and the versions listed

vars == <<pc, grouped, log, mdx, indexMdx, docsJson, overwrite, fnArg, fnRes,
          now, call, run>>

(***************************************************************************)
(* Characters and the character classes the regular expressions use.       *)
(***************************************************************************)
UpperChars == <<"A","B","C","D","E","F","G","H","I","J","K","L","M",
                "N","O","P","Q","R","S","T","U","V","W","X","Y","Z">>

LowerChars == <<"a","b","c","d","e","f","g","h","i","j","k","l","m",
                "n","o","p","q","r","s","t","u","v","w","x","y","z">>

DigitChars == {"0","1","2","3","4","5","6","7","8","9"}

UpperSet == {UpperChars[i] : i \in 1..26}

LowerSet == {LowerChars[i] : i \in 1..26}

\* \s of the regular expressions (the white space the inputs here use)
IsSpace(c) == c \in {" ", "\n", "\t", "\r"}

\* \d
IsDigit(c) == c \in DigitChars

\* [A-Z]
IsUpper(c) == c \in UpperSet

\* [a-z]
IsLower(c) == c \in LowerSet

\* \w
IsWordChar(c) == c \in UpperSet \/ c \in LowerSet \/ c \in DigitChars \/ c = "_"

\* [*_#]
IsEmphasisOrHash(c) == c \in {"*", "_", "#"}

\* [*_]
IsEmphasis(c) == c \in {"*", "_"}

\* String.prototype.toLowerCase, one character
ToLowerChar(c) ==
    IF c \in UpperSet
    THEN LowerChars[CHOOSE i \in 1..26 : UpperChars[i] = c]
    ELSE c

\* String.prototype.toUpperCase, one character
ToUpperChar(c) ==
    IF c \in LowerSet
    THEN UpperChars[CHOOSE i \in 1..26 : LowerChars[i] = c]
    ELSE c

toLowerCase(s) == [i \in 1..Len(s) |-> ToLowerChar(s[i])]

toUpperCase(s) == [i \in 1..Len(s) |-> ToUpperChar(s[i])]

MinOf(S) == CHOOSE x \in S : \A y \in S : x <= y

MaxOf(S) == CHOOSE x \in S : \A y \in S : y <= x

\* the least element of a set of positions, or the default when it is empty
MinOr(S, default) == IF S = {} THEN default ELSE MinOf(S)

\* the greatest element of a set of positions, or the default when it is empty
MaxOr(S, default) == IF S = {} THEN default ELSE MaxOf(S)

\* s.slice(from) with a 1-based first position
Drop(s, from) == SubSeq(s, from, Len(s))

\* the elements of s at the positions idx, in order
PickAt(s, idx) == [k \in 1..Len(idx) |-> s[idx[k]]]

\* the characters of s at the positions that satisfy Keep, in order
KeepAt(s, Keep(_)) == PickAt(s, SelectSeq([i \in 1..Len(s) |-> i], Keep))

\* String.prototype.trim
trim(s) ==
    SubSeq(s,
           MinOr({i \in 1..Len(s) : ~IsSpace(s[i])}, 1),
           MaxOr({i \in 1..Len(s) : ~IsSpace(s[i])}, 0))

\* the first position at or after i whose character fails In (Len(s)+1 if none)
SkipWhile(s, i, In(_)) == MinOr({j \in i..Len(s) : ~In(s[j])}, Len(s) + 1)

\* the first position at or after i that holds no white space
SkipSpaces(s, i) == SkipWhile(s, i, IsSpace)

\* the first position at or after i that holds no digit
SkipDigits(s, i) == SkipWhile(s, i, IsDigit)

\* s reads p, compared case-insensitively, from position i on
MatchesAtCI(s, i, p) ==
    /\ i >= 1
    /\ i + Len(p) - 1 <= Len(s)
    /\ \A k \in 1..Len(p) : ToLowerChar(s[i + k - 1]) = p[k]

\* the position of a failed match
NoMatch == 0

\* a literal word, case-insensitive
AfterWord(s, i, word) ==
    IF i # NoMatch /\ MatchesAtCI(s, i, word) THEN i + Len(word) ELSE NoMatch

\* one literal character
AfterChar(s, i, c) ==
    IF i # NoMatch /\ i <= Len(s) /\ s[i] = c THEN i + 1 ELSE NoMatch

\* In*, for a character class In
AfterAny(s, i, In(_)) == IF i = NoMatch THEN NoMatch ELSE SkipWhile(s, i, In)

\* In+
AfterSome(s, i, In(_)) ==
    IF i # NoMatch /\ i <= Len(s) /\ In(s[i]) THEN SkipWhile(s, i, In) ELSE NoMatch

\* In{lo,hi} followed by something that is not In
AfterRun(s, i, In(_), lo, hi) ==
    IF i # NoMatch /\ SkipWhile(s, i, In) - i \in lo..hi
    THEN SkipWhile(s, i, In)
    ELSE NoMatch

\* $ (without the m flag)
AtEnd(s, i) == i = Len(s) + 1

\* .replace(/\r\n/g, '\n')
ReplaceCRLF(s) ==
    KeepAt(s, LAMBDA i : ~(s[i] = "\r" /\ i < Len(s) /\ s[i + 1] = "\n"))

\* ^ under the m flag: the start of the text or just after a line terminator
AtLineStart(s, i) == i = 1 \/ s[i - 1] \in {"\n", "\r"}

\* /^[-*]\s+/ at a line start i: the position after the marker, or NoMatch
BulletEnd(s, i) ==
    IF AtLineStart(s, i) /\ s[i] \in {"-", "*"}
    THEN AfterSome(s, i + 1, IsSpace)
    ELSE NoMatch

\* /^\d+\.\s+/ at a line start i: the position after the marker, or NoMatch
OrderedEnd(s, i) ==
    IF AtLineStart(s, i)
    THEN AfterSome(s, AfterChar(s, AfterSome(s, i, IsDigit), "."), IsSpace)
    ELSE NoMatch

\* the character at k is part of a match of /^[-*]\s+/gm that starts at or
\* after i: a match starts at a line start only, and no line start lies
\* inside a match after its marker, so no match hides another
InBulletMarker(s, i, k) ==
    \E j \in i..k : BulletEnd(s, j) # NoMatch /\ k < BulletEnd(s, j)

\* .replace(/^[-*]\s+/gm, '') of the text from position i on
StripBulletMarkers(s, i) ==
    KeepAt(s, LAMBDA k : k >= i /\ ~InBulletMarker(s, i, k))

\* the character at k is part of a match of /^\d+\.\s+/gm that starts at or
\* after i
InOrderedMarker(s, i, k) ==
    \E j \in i..k : OrderedEnd(s, j) # NoMatch /\ k < OrderedEnd(s, j)

\* .replace(/^\d+\.\s+/gm, '') of the text from position i on
StripOrderedMarkers(s, i) ==
    KeepAt(s, LAMBDA k : k >= i /\ ~InOrderedMarker(s, i, k))

\* .replace(/\n{3,}/g, '\n\n'): of a run of newlines only the first two stay
CollapseBlankLines(s) ==
    KeepAt(s, LAMBDA i : ~(/\ s[i] = "\n"
                           /\ i > 2
                           /\ s[i - 1] = "\n"
                           /\ s[i - 2] = "\n"))

normalizeSummaryText(text) ==
    trim(CollapseBlankLines(
        StripOrderedMarkers(
            StripBulletMarkers(ReplaceCRLF(text), 1), 1)))

\* every white-space character as a blank
BlankSpaces(s) == [i \in 1..Len(s) |-> IF IsSpace(s[i]) THEN " " ELSE s[i]]

\* .replace(/\s+/g, ' ')
CollapseSpaces(s) ==
    BlankSpaces(KeepAt(s, LAMBDA i : ~IsSpace(s[i]) \/ i = 1 \/ ~IsSpace(s[i - 1])))

\* s.lastIndexOf(' ', upTo - 1) as a 1-based position, 0 when there is none
LastSpaceUpTo(s, upTo) == MaxOr({i \in 1..Len(s) : i <= upTo /\ s[i] = " "}, 0)

\* the end position of s.slice(0, end), end possibly negative
SliceEnd(s, end) ==
    IF end < 0 THEN (IF Len(s) + end < 0 THEN 0 ELSE Len(s) + end)
    ELSE IF end > Len(s) THEN Len(s) ELSE end

\* s.slice(0, end)
SliceTo(s, end) == SubSeq(s, 1, SliceEnd(s, end))

\* the one-character ellipsis U+2026 that closes a truncated summary
Ellipsis == <<"U+2026">>

\* the default of toSingleLineSummary's maxLen parameter
DefaultMaxLen == 200

\* CutAtWord with a hard cut that keeps maxLen characters before the ellipsis
CutKeepingMaxLen(truncated, lastSpace, maxLen) ==
    IF lastSpace * 10 > maxLen * 6
    THEN SliceTo(truncated, lastSpace) \o Ellipsis
    ELSE SliceTo(truncated, maxLen) \o Ellipsis

\* the cut of a summary that is longer than maxLen: truncated is its first
\* maxLen characters and lastSpace the 0-based index of the last space in
\* them (-1 when there is none); lastSpace > maxLen * 0.6 in integers
CutAtWord(truncated, lastSpace, maxLen) ==
    IF lastSpace * 10 > maxLen * 6
    THEN SliceTo(truncated, lastSpace) \o Ellipsis
    ELSE SliceTo(truncated, maxLen - 1) \o Ellipsis

TruncateOneLine(oneLine, truncated, maxLen) ==
    IF oneLine = <<>> THEN <<>>
    ELSE IF Len(oneLine) <= maxLen THEN oneLine
    ELSE CutAtWord(truncated, LastSpaceUpTo(truncated, Len(truncated)) - 1, maxLen)

OneLine(text) == CollapseSpaces(normalizeSummaryText(text))

toSingleLineSummary(text, maxLen) ==
    TruncateOneLine(OneLine(text), SliceTo(OneLine(text), maxLen), maxLen)

(***************************************************************************)
(* Title cleaner and classifier.                                           *)
(***************************************************************************)
\* the positions of s that hold the character sep
PositionsOf(s, sep) == SelectSeq([i \in 1..Len(s) |-> i], LAMBDA i : s[i] = sep)

\* the parts of s between the separators at the positions at
SplitAt(s, at) ==
    [k \in 1..(Len(at) + 1) |->
        SubSeq(s,
               IF k = 1 THEN 1 ELSE at[k - 1] + 1,
               IF k = Len(at) + 1 THEN Len(s) ELSE at[k] - 1)]

\* String.prototype.split with a one-character separator
split(s, sep) == SplitAt(s, PositionsOf(s, sep))

\* Array.prototype.join
RECURSIVE join(_, _)
join(parts, sep) ==
    IF parts = <<>> THEN <<>>
    ELSE IF Len(parts) = 1 THEN parts[1]
    ELSE parts[1] \o sep \o join(Tail(parts), sep)

\* Array.prototype.indexOf as a 1-based position (0 when absent)
indexOf(xs, x) == MinOr({i \in 1..Len(xs) : xs[i] = x}, 0)

\* a || b for texts: '' is falsy
OrElse(a, b) == IF a # <<>> THEN a ELSE b

\* feat|fix|chore|refactor|docs|ci|style|perf|test|build: no type is a
\* prefix of another, so at most one alternative matches
ConventionalTypes ==
    { <<"f","e","a","t">>, <<"f","i","x">>, <<"c","h","o","r","e">>, <<"r","e","f","a","c","t","o","r">>, <<"d","o","c","s">>, <<"c","i">>, <<"s","t","y","l","e">>, <<"p","e","r","f">>,
      <<"t","e","s","t">>, <<"b","u","i","l","d">> }

\* (?:feat|...|build) at the start of t
AfterType(t) ==
    MaxOr({AfterWord(t, 1, p) : p \in ConventionalTypes}, NoMatch)

\* (?:\([^)]*\))? from position i on: the group is skipped when it cannot match
AfterScope(t, i) ==
    IF AfterChar(t, i, "(") # NoMatch /\ \E j \in (i + 1)..Len(t) : t[j] = ")"
    THEN MinOf({j \in (i + 1)..Len(t) : t[j] = ")"}) + 1
    ELSE i

\* /^(?:feat|...|build)\s*(?:\([^)]*\))?\s*:\s*/i
ConventionalPrefixEnd(t) ==
    AfterAny(t,
        AfterChar(t,
            AfterAny(t, AfterScope(t, AfterAny(t, AfterType(t), IsSpace)), IsSpace),
            ":"),
        IsSpace)

\* .replace(/^(?:feat|...|build)\s*(?:\([^)]*\))?\s*:\s*/i, '')
StripConventionalPrefix(t) ==
    IF ConventionalPrefixEnd(t) = NoMatch THEN t
    ELSE Drop(t, ConventionalPrefixEnd(t))

\* /^[A-Z]{2,}-\d+/: the position after the ticket id, or NoMatch
TicketEnd(s) ==
    AfterSome(s, AfterChar(s, AfterRun(s, 1, IsUpper, 2, Len(s)), "-"), IsDigit)

\* /^[A-Z]{2,}-\d+\//
LooksLikeBranch(t) == AfterChar(t, TicketEnd(t), "/") # NoMatch

\* /^[A-Z]{2,}-\d+$/
IsTicketId(s) == AtEnd(s, TicketEnd(s))

\* [A-Z][a-z]+ from position i on
AfterName(s, i) ==
    IF i # NoMatch /\ i <= Len(s) /\ IsUpper(s[i])
    THEN AfterSome(s, i + 1, IsLower)
    ELSE NoMatch

\* /^[A-Z][a-z]+-[A-Z][a-z]+$/
IsAuthorName(s) ==
    AtEnd(s, AfterName(s, AfterChar(s, AfterName(s, 1), "-")))

\* the segments cleanPRTitle keeps of a branch-name title
MeaningfulSegments(segments) ==
    SelectSeq(segments,
              LAMBDA seg : /\ ~IsTicketId(seg)
                           /\ ~(/\ indexOf(segments, seg) = Len(segments)
                                /\ IsAuthorName(seg)))

\* if (meaningful.length > 0) t = meaningful.join(' ')
JoinMeaningful(t, meaningful) ==
    IF meaningful # <<>> THEN join(meaningful, <<" ">>) ELSE t

\* the branch-name step of cleanPRTitle
BranchText(t) ==
    IF LooksLikeBranch(t)
    THEN JoinMeaningful(t, MeaningfulSegments(split(t, "/")))
    ELSE t

\* .replace(/-/g, ' ')
HyphensToSpaces(t) == [i \in 1..Len(t) |-> IF t[i] = "-" THEN " " ELSE t[i]]

\* charAt(0).toUpperCase() + slice(1)
UpperFirst(t) ==
    IF t = <<>> THEN <<>> ELSE <<ToUpperChar(t[1])>> \o Drop(t, 2)

\* charAt(0).toLowerCase() + slice(1)
LowerFirst(t) ==
    IF t = <<>> THEN <<>> ELSE <<ToLowerChar(t[1])>> \o Drop(t, 2)

\* the casing step of cleanPRTitle
SentenceCase(t) ==
    IF t = toUpperCase(t) /\ Len(t) > 3
    THEN <<ToUpperChar(t[1])>> \o toLowerCase(Drop(t, 2))
    ELSE UpperFirst(t)

cleanPRTitle(raw) ==
    SentenceCase(
        trim(CollapseSpaces(HyphensToSpaces(
            BranchText(StripConventionalPrefix(trim(raw)))))))

\* \b just before position i
WordBoundary(s, i) ==
    (i - 1 >= 1 /\ i - 1 <= Len(s) /\ IsWordChar(s[i - 1]))
        # (i >= 1 /\ i <= Len(s) /\ IsWordChar(s[i]))

\* /\bword\b/i
ContainsWord(s, word) ==
    \E i \in 1..Len(s) :
        /\ MatchesAtCI(s, i, word)
        /\ WordBoundary(s, i)
        /\ WordBoundary(s, i + Len(word))

\* /^prefix\b/i
StartsWithWord(s, prefix) ==
    MatchesAtCI(s, 1, prefix) /\ WordBoundary(s, Len(prefix) + 1)

\* shouldExcludePRTitle with the word anchored at the start of the title
ExcludeLeadingStaging(title) == StartsWithWord(title, <<"s","t","a","g","i","n","g">>)

\* EXCLUDE_TITLE_PATTERNS.some((re) => re.test(title))
shouldExcludePRTitle(title) ==
    \/ ContainsWord(title, <<"s","t","a","g","i","n","g">>)
    \/ StartsWithWord(title, <<"u","p","d","a","t","e"," ","s","t","a","g","i","n","g">>)
    \/ StartsWithWord(title, <<"s","t","a","g","i","n","g">>)

\* /^fix/i.test(t) || /\bfix\b/i.test(t)
IsFixTitle(t) ==
    MatchesAtCI(t, 1, <<"f","i","x">>) \/ ContainsWord(t, <<"f","i","x">>)

\* /^sprint\s+\d+/i: the position after the digits, or NoMatch
SprintEnd(s) ==
    AfterSome(s, AfterSome(s, AfterWord(s, 1, <<"s","p","r","i","n","t">>), IsSpace), IsDigit)

\* /^sprint\s+\d+/i
IsSprintTitle(t) == SprintEnd(t) # NoMatch

\* /^Sprint\s+\d+$/i
IsBareSprint(s) == AtEnd(s, SprintEnd(s))

ReleaseBundleSuffix == <<" ","r","e","l","e","a","s","e"," ","b","u","n","d","l","e">>

(***************************************************************************)
(* Section extractor and structured-summary extractor.                     *)
(***************************************************************************)
\* a pull request without a body or title (null); !body holds of it and of ''
Absent == <<"null">>

NoBody(body) == body = Absent \/ body = <<>>

\* the words of SUMMARY_HEADING_PATTERNS, in the order of the array
SUMMARY_HEADING_PATTERNS ==
    << <<"s","u","m","m","a","r","y">>, <<"t","l","d","r">>, <<"t","l",";","d","r">>, <<"o","v","e","r","v","i","e","w">> >>

IsHash(c) == c = "#"

\* MatchesHeading with the '#' markers optional: /^#*\s*word\s*$/i
MatchesBareHeading(line, word) ==
    AtEnd(line,
          AfterAny(line,
              AfterWord(line,
                  AfterAny(line, AfterAny(line, 1, IsHash), IsSpace),
                  word),
              IsSpace))

\* /^#{2,3}\s*word\s*$/i
MatchesHeading(line, word) ==
    AtEnd(line,
          AfterAny(line,
              AfterWord(line,
                  AfterAny(line, AfterRun(line, 1, IsHash, 2, 3), IsSpace),
                  word),
              IsSpace))

\* /^#{2,6}\s+/
IsMarkdownHeading(line) ==
    AfterSome(line, AfterRun(line, 1, IsHash, 2, 6), IsSpace) # NoMatch

\* body.replace(/\r\n/g, '\n').split('\n')
LinesOf(body) == split(ReplaceCRLF(body), "\n")

\* SectionEnd without the search for the next heading: the section runs to
\* the end of the text
SectionToEndOfText(lines, start) == Len(lines) + 1

\* the first line at or after start that is a markdown heading of level 2-6
\* (Len(lines)+1 when there is none)
SectionEnd(lines, start) ==
    MinOr({i \in start..Len(lines) : IsMarkdownHeading(trim(lines[i]))},
          Len(lines) + 1)

\* the lines from start up to the next heading, start being 0 when no line
\* matched the heading
SectionFrom(lines, start) ==
    IF start = 0 THEN <<>>
    ELSE join(SubSeq(lines, start, SectionEnd(lines, start) - 1), <<"\n">>)

\* the line after the first line that reads the heading, 0 when none does
SectionStart(lines, word) ==
    MinOr({i + 1 : i \in {j \in 1..Len(lines) : MatchesHeading(trim(lines[j]), word)}},
          0)

\* extractSectionUnderHeading(body, (line) => re.test(line)) for the pattern
\* of the given word
extractSectionUnderHeading(body, word) ==
    IF NoBody(body) THEN <<>>
    ELSE SectionFrom(LinesOf(body), SectionStart(LinesOf(body), word))

\* (?:[*_#]*\s*)*: any run of emphasis, hash and white-space characters
IsMarkerPrefixChar(c) == c \in {"*", "_", "#"} \/ IsSpace(c)

\* CODERABBIT_MARKER_RE:
\* /^(?:[*_#]*\s*)*summary\s+by\s+coderabbit\s*(?:[*_]*\s*)$/i
IsCodeRabbitMarker(t) ==
    AtEnd(t,
      AfterAny(t,
        AfterAny(t,
          AfterAny(t,
            AfterWord(t,
              AfterSome(t,
                AfterWord(t,
                  AfterSome(t,
                    AfterWord(t, AfterAny(t, 1, IsMarkerPrefixChar), <<"s","u","m","m","a","r","y">>),
                    IsSpace),
                  <<"b","y">>),
                IsSpace),
              <<"c","o","d","e","r","a","b","b","i","t">>),
            IsSpace),
          IsEmphasis),
        IsSpace))

CODERABBIT_SECTION_TITLES_LIST ==
    << <<"N","e","w"," ","F","e","a","t","u","r","e","s">>,
       <<"B","u","g"," ","F","i","x","e","s">>,
       <<"I","m","p","r","o","v","e","m","e","n","t","s">>,
       <<"R","e","f","a","c","t","o","r">>,
       <<"C","h","o","r","e","s">>,
       <<"D","a","t","a">>,
       <<"V","a","l","i","d","a","t","i","o","n">>,
       <<"D","o","c","u","m","e","n","t","a","t","i","o","n">>,
       <<"T","e","s","t","s">>,
       <<"S","t","y","l","e">>,
       <<"P","e","r","f","o","r","m","a","n","c","e">>,
       <<"O","t","h","e","r"," ","C","h","a","n","g","e","s">>,
       <<"E","n","h","a","n","c","e","m","e","n","t","s">>,
       <<"B","r","e","a","k","i","n","g"," ","C","h","a","n","g","e","s">> >>

CODERABBIT_SECTION_TITLES ==
    {CODERABBIT_SECTION_TITLES_LIST[i] : i \in 1..Len(CODERABBIT_SECTION_TITLES_LIST)}

\* the first position of the longest suffix of s whose characters all satisfy In
SuffixStart(s, In(_)) == MaxOr({j + 1 : j \in {k \in 1..Len(s) : ~In(s[k])}}, 1)

\* .replace(/^[*_#]+\s*/, '')
StripLeadingEmphasis(line) ==
    IF AfterSome(line, 1, IsEmphasisOrHash) = NoMatch THEN line
    ELSE Drop(line, SkipSpaces(line, AfterSome(line, 1, IsEmphasisOrHash)))

\* the text before the white space that precedes position r
BeforeSpaces(line, r) ==
    SubSeq(line, 1, SuffixStart(SubSeq(line, 1, r - 1), IsSpace) - 1)

\* .replace(/\s*[*_]+$/, ''): the leftmost match is the run of emphasis
\* characters that ends the line, with the white space before it
StripTrailingEmphasis(line) ==
    IF SuffixStart(line, IsEmphasis) > Len(line) THEN line
    ELSE BeforeSpaces(line, SuffixStart(line, IsEmphasis))

\* CODERABBIT_SECTION_TITLES.has(cleaned) ? cleaned : null, null being <<>>
KnownTitleOrNull(cleaned) ==
    IF cleaned \in CODERABBIT_SECTION_TITLES THEN cleaned ELSE <<>>

\* the category label a line reads, <<>> (null) when it reads none
isCodeRabbitSectionTitle(line) ==
    KnownTitleOrNull(trim(StripTrailingEmphasis(StripLeadingEmphasis(line))))

\* lines.findIndex of the marker as a 1-based position, 0 when no line reads it
MarkerIndex(lines) ==
    MinOr({i \in 1..Len(lines) : IsCodeRabbitMarker(trim(lines[i]))}, 0)

\* a trimmed line that ends the capture of the block
IsBlockBoundary(t) ==
    /\ t # <<>>
    /\ \/ IsCodeRabbitMarker(t)
       \/ IsMarkdownHeading(t)
       \/ toLowerCase(t) = <<"i","m","a","g","e">>

\* the line that ends the block captured after the marker at startIdx
BlockEnd(lines, startIdx) ==
    MinOr({i \in (startIdx + 1)..Len(lines) : IsBlockBoundary(trim(lines[i]))},
          Len(lines) + 1)

\* the lines captured after the marker at startIdx, blank lines kept as ''
BlockLines(lines, startIdx) ==
    [k \in 1..(BlockEnd(lines, startIdx) - startIdx - 1) |->
        IF trim(lines[startIdx + k]) = <<>> THEN <<>> ELSE lines[startIdx + k]]

\* .replace(/^[-*]\s+/, '') of one line
StripItemBullet(line) ==
    IF line # <<>> /\ BulletEnd(line, 1) # NoMatch
    THEN Drop(line, BulletEnd(line, 1))
    ELSE line

\* the line k of the block reads a category label
IsTitleAt(blockLines, k) == isCodeRabbitSectionTitle(trim(blockLines[k])) # <<>>

\* currentSection when the loop reaches line k: the label of the last label
\* line before it
SectionAt(blockLines, k) ==
    isCodeRabbitSectionTitle(
        trim(blockLines[MaxOf({j \in 1..k : IsTitleAt(blockLines, j)})]))

\* the lines of the block that become items: not blank, no label, under a label
ItemPositions(blockLines) ==
    SelectSeq([k \in 1..Len(blockLines) |-> k],
              LAMBDA k : /\ trim(blockLines[k]) # <<>>
                         /\ ~IsTitleAt(blockLines, k)
                         /\ \E j \in 1..k : IsTitleAt(blockLines, j))

\* items.push({ section: currentSection, text: ... }) for the lines at
ItemsAt(blockLines, at) ==
    [n \in 1..Len(at) |->
        [section |-> SectionAt(blockLines, at[n]),
         text    |-> trim(StripItemBullet(trim(blockLines[at[n]])))]]

\* the items of a sectioned block, in source order
ParseItems(blockLines) == ItemsAt(blockLines, ItemPositions(blockLines))

\* sectionPriority[section] ?? 99
sectionPriority(section) ==
    CASE section = <<"N","e","w"," ","F","e","a","t","u","r","e","s">> -> 0
      [] section = <<"E","n","h","a","n","c","e","m","e","n","t","s">> -> 0
      [] section = <<"B","u","g"," ","F","i","x","e","s">> -> 1
      [] section = <<"I","m","p","r","o","v","e","m","e","n","t","s">> -> 2
      [] section = <<"V","a","l","i","d","a","t","i","o","n">> -> 3
      [] section = <<"R","e","f","a","c","t","o","r">> -> 4
      [] section = <<"P","e","r","f","o","r","m","a","n","c","e">> -> 4
      [] section = <<"C","h","o","r","e","s">> -> 5
      [] section = <<"D","a","t","a">> -> 6
      [] section = <<"D","o","c","u","m","e","n","t","a","t","i","o","n">> -> 7
      [] section = <<"T","e","s","t","s">> -> 7
      [] section = <<"S","t","y","l","e">> -> 8
      [] section = <<"O","t","h","e","r"," ","C","h","a","n","g","e","s">> -> 9
      [] section = <<"B","r","e","a","k","i","n","g"," ","C","h","a","n","g","e","s">> -> 0
      [] OTHER -> 99

\* SortByPriority without the sort: the items in source order
KeepSourceOrder(items) == items

\* items.sort by sectionPriority (Array.prototype.sort is stable): the items
\* of the least rank in source order, then the others sorted
RECURSIVE SortByPriority(_)
SortByPriority(items) ==
    IF items = <<>> THEN <<>>
    ELSE SelectSeq(items,
                   LAMBDA it : \A i \in 1..Len(items) :
                       sectionPriority(it.section) <= sectionPriority(items[i].section))
            \o SortByPriority(
                   SelectSeq(items,
                             LAMBDA it : \E i \in 1..Len(items) :
                                 sectionPriority(it.section)
                                     > sectionPriority(items[i].section)))

\* the summary keeps at most this many items ...
MaxSelected == 4

\* ... and at most this many of one section
MaxPerSection == 2

\* selected.filter((s) => s.section === key).length
CountInSection(selected, key) ==
    Len(SelectSeq(selected, LAMBDA s : s.section = key))

\* SelectItems without the two caps
SelectEveryItem(items, selected) == selected \o items

\* SelectItems with the loop ending at the first item of a full section
RECURSIVE SelectUntilFullSection(_, _)
SelectUntilFullSection(items, selected) ==
    IF items = <<>> \/ Len(selected) >= MaxSelected THEN selected
    ELSE IF CountInSection(selected, Head(items).section) >= MaxPerSection
         THEN selected
         ELSE SelectUntilFullSection(Tail(items), Append(selected, Head(items)))

\* the selection loop over the sorted items
RECURSIVE SelectItems(_, _)
SelectItems(items, selected) ==
    IF items = <<>> \/ Len(selected) >= MaxSelected THEN selected
    ELSE IF CountInSection(selected, Head(items).section) >= MaxPerSection
         THEN SelectItems(Tail(items), selected)
         ELSE SelectItems(Tail(items), Append(selected, Head(items)))

\* text.slice(0, cut > 40 ? cut : 77) + '...', cut being
\* text.lastIndexOf(' ', 77)
ClipAt(text, cut) == SliceTo(text, IF cut > 40 THEN cut ELSE 77) \o <<".",".",".">>

\* an item of more than 80 characters is clipped
ClipItem(text) ==
    IF Len(text) > 80 THEN ClipAt(text, LastSpaceUpTo(text, 78) - 1) ELSE text

\* the switch over item.section
WithSectionWording(section, text) ==
    CASE section \in { <<"N","e","w"," ","F","e","a","t","u","r","e","s">>, <<"E","n","h","a","n","c","e","m","e","n","t","s">> } -> text
      [] section = <<"B","u","g"," ","F","i","x","e","s">> -> <<"f","i","x","e","d"," ">> \o text
      [] section = <<"I","m","p","r","o","v","e","m","e","n","t","s">> -> <<"i","m","p","r","o","v","e","d"," ">> \o text
      [] section = <<"V","a","l","i","d","a","t","i","o","n">> -> <<"a","d","d","e","d"," ","v","a","l","i","d","a","t","i","o","n"," ","f","o","r"," ">> \o text
      [] section = <<"P","e","r","f","o","r","m","a","n","c","e">> -> <<"p","e","r","f","o","r","m","a","n","c","e",":"," ">> \o text
      [] OTHER -> text

\* RenderPart without the lower-casing of the first character
RenderPartKeepingCase(item) ==
    WithSectionWording(item.section, ClipItem(item.text))

\* one item as a sentence fragment
RenderPart(item) ==
    WithSectionWording(item.section, ClipItem(LowerFirst(item.text)))

RenderParts(selected) == [i \in 1..Len(selected) |-> RenderPart(selected[i])]

\* the fragments joined into one sentence
RenderSentence(parts) ==
    IF Len(parts) = 1 THEN UpperFirst(parts[1])
    ELSE IF Len(parts) = 2
         THEN UpperFirst(parts[1]) \o <<" ","a","n","d"," ">> \o parts[2]
         ELSE UpperFirst(parts[1]) \o <<","," ">>
                \o join(SubSeq(parts, 2, Len(parts) - 1), <<","," ">>)
                \o <<","," ","a","n","d"," ">> \o parts[Len(parts)]

\* the summary of the items of a sectioned block
SummaryOfItems(items) ==
    IF items = <<>> THEN <<>>
    ELSE normalizeSummaryText(
             RenderSentence(RenderParts(SelectItems(SortByPriority(items), <<>>))))

\* blockLines.some((l) => isCodeRabbitSectionTitle(l.trim()))
HasKnownSection(blockLines) ==
    \E k \in 1..Len(blockLines) : IsTitleAt(blockLines, k)

\* SummaryOfBlock without the sectioned path
SummaryOfWholeBlock(blockLines, block) ==
    IF block = <<>> THEN <<>> ELSE normalizeSummaryText(block)

\* the summary of the captured block
SummaryOfBlock(blockLines, block) ==
    IF block = <<>> THEN <<>>
    ELSE IF ~HasKnownSection(blockLines) THEN normalizeSummaryText(block)
    ELSE SummaryOfItems(ParseItems(blockLines))

\* the summary of the block after the marker at startIdx
SummaryAfterMarker(blockLines) ==
    SummaryOfBlock(blockLines, trim(join(blockLines, <<"\n">>)))

\* SummaryOfLines without the test for a missing marker
SummaryOfAllLines(lines, startIdx) ==
    SummaryAfterMarker(BlockLines(lines, startIdx))

\* the summary of the lines of a body: '' when no line reads the marker
SummaryOfLines(lines, startIdx) ==
    IF startIdx = 0 THEN <<>>
    ELSE SummaryAfterMarker(BlockLines(lines, startIdx))

extractCodeRabbitSummary(body) ==
    IF NoBody(body) THEN <<>>
    ELSE SummaryOfLines(LinesOf(body), MarkerIndex(LinesOf(body)))

\* the loop over SUMMARY_HEADING_PATTERNS from pattern k on: the first
\* pattern under whose heading the normalized section is not empty
RECURSIVE FirstHeadingSummary(_, _)
FirstHeadingSummary(body, k) ==
    IF k > Len(SUMMARY_HEADING_PATTERNS) THEN <<>>
    ELSE OrElse(normalizeSummaryText(
                    extractSectionUnderHeading(body, SUMMARY_HEADING_PATTERNS[k])),
                FirstHeadingSummary(body, k + 1))

\* extractPreferredSummaryFromBody with the heading sections tried first
PreferHeadingSummary(body) ==
    IF NoBody(body) THEN <<>>
    ELSE OrElse(FirstHeadingSummary(body, 1), extractCodeRabbitSummary(body))

extractPreferredSummaryFromBody(body) ==
    IF NoBody(body) THEN <<>>
    ELSE OrElse(extractCodeRabbitSummary(body), FirstHeadingSummary(body, 1))


(***************************************************************************)
(* The summary helpers of the backfill script, where they differ from      *)
(* those of the generator.  normalizeSummaryText, extractSectionUnder-     *)
(* Heading, the marker, the labels, the ranks, the selection and the       *)
(* sentence are the same text in both scripts.                             *)
(***************************************************************************)
\* String.prototype.startsWith
startsWith(t, p) == Len(t) >= Len(p) /\ SubSeq(t, 1, Len(p)) = p

\* String.prototype.includes
includes(t, p) ==
    \E i \in 1..(Len(t) - Len(p) + 1) : SubSeq(t, i, i + Len(p) - 1) = p

\* .replace(/^[class]+/, '')
StripLeadingRun(s, In(_)) == Drop(s, SkipWhile(s, 1, In))

\* .replace(/[class]+$/, '')
StripTrailingRun(s, In(_)) == SubSeq(s, 1, SuffixStart(s, In) - 1)

\* [\s*_#-]
IsTitleLead(c) == c \in {"*", "_", "#", "-"} \/ IsSpace(c)

\* [\s*_#]
IsTitleTrail(c) == c \in {"*", "_", "#"} \/ IsSpace(c)

\* [\s*_-]
IsItemLead(c) == c \in {"*", "_", "-"} \/ IsSpace(c)

\* [\s*_]
IsItemTrail(c) == c \in {"*", "_"} \/ IsSpace(c)

\* isCodeRabbitSectionTitle of the backfill script
backfill_isCodeRabbitSectionTitle(line) ==
    KnownTitleOrNull(
        StripTrailingRun(StripLeadingRun(line, IsTitleLead), IsTitleTrail))

\* t.startsWith('<!--') && t.includes('end of auto-generated')
IsAutoGeneratedEnd(t) ==
    startsWith(t, <<"<","!","-","-">>) /\ includes(t, <<"e","n","d"," ","o","f"," ","a","u","t","o","-","g","e","n","e","r","a","t","e","d">>)

\* a trimmed line that ends the capture of the block in the backfill script:
\* the closing comment, or a line that is no comment and reads the marker, a
\* heading or 'image'
backfill_IsBlockBoundary(t) ==
    /\ t # <<>>
    /\ \/ IsAutoGeneratedEnd(t)
       \/ /\ ~startsWith(t, <<"<","!","-","-">>)
          /\ \/ IsCodeRabbitMarker(t)
             \/ IsMarkdownHeading(t)
             \/ toLowerCase(t) = <<"i","m","a","g","e">>

backfill_BlockEnd(lines, startIdx) ==
    MinOr({i \in (startIdx + 1)..Len(lines) :
              backfill_IsBlockBoundary(trim(lines[i]))},
          Len(lines) + 1)

\* the positions of the lines from startIdx + 1 to end - 1 that are pushed:
\* a comment line is passed over
PushedPositions(lines, startIdx, end) ==
    SelectSeq([k \in 1..(end - startIdx - 1) |-> startIdx + k],
              LAMBDA i : ~startsWith(trim(lines[i]), <<"<","!","-","-">>))

\* the lines at the given positions, blank lines kept as ''
PushedLines(lines, at) ==
    [n \in 1..Len(at) |->
        IF trim(lines[at[n]]) = <<>> THEN <<>> ELSE lines[at[n]]]

backfill_BlockLines(lines, startIdx) ==
    PushedLines(lines,
                PushedPositions(lines, startIdx, backfill_BlockEnd(lines, startIdx)))

\* line.replace(/^[\s*_-]+/, '').replace(/[\s*_]+$/, '').trim()
backfill_ItemText(line) ==
    trim(StripTrailingRun(StripLeadingRun(line, IsItemLead), IsItemTrail))

backfill_IsTitleAt(blockLines, k) ==
    backfill_isCodeRabbitSectionTitle(trim(blockLines[k])) # <<>>

backfill_SectionAt(blockLines, k) ==
    backfill_isCodeRabbitSectionTitle(
        trim(blockLines[MaxOf({j \in 1..k : backfill_IsTitleAt(blockLines, j)})]))

\* the lines of the block that become items: not blank, no label, under a
\* label, and with a text left after the stripping
backfill_ItemPositions(blockLines) ==
    SelectSeq([k \in 1..Len(blockLines) |-> k],
              LAMBDA k : /\ trim(blockLines[k]) # <<>>
                         /\ ~backfill_IsTitleAt(blockLines, k)
                         /\ \E j \in 1..k : backfill_IsTitleAt(blockLines, j)
                         /\ backfill_ItemText(trim(blockLines[k])) # <<>>)

backfill_ItemsAt(blockLines, at) ==
    [n \in 1..Len(at) |->
        [section |-> backfill_SectionAt(blockLines, at[n]),
         text    |-> backfill_ItemText(trim(blockLines[at[n]]))]]

backfill_ParseItems(blockLines) ==
    backfill_ItemsAt(blockLines, backfill_ItemPositions(blockLines))

\* the switch over item.section of the backfill script
backfill_WithSectionWording(section, text) ==
    CASE section \in { <<"N","e","w"," ","F","e","a","t","u","r","e","s">>, <<"E","n","h","a","n","c","e","m","e","n","t","s">> } -> text
      [] section = <<"B","u","g"," ","F","i","x","e","s">> -> <<"f","i","x","e","d"," ">> \o text
      [] section = <<"I","m","p","r","o","v","e","m","e","n","t","s">> -> <<"i","m","p","r","o","v","e","d"," ">> \o text
      [] section = <<"V","a","l","i","d","a","t","i","o","n">> -> <<"a","d","d","e","d"," ","v","a","l","i","d","a","t","i","o","n"," ","f","o","r"," ">> \o text
      [] OTHER -> text

backfill_RenderPart(item) ==
    backfill_WithSectionWording(item.section, ClipItem(LowerFirst(item.text)))

backfill_RenderParts(selected) ==
    [i \in 1..Len(selected) |-> backfill_RenderPart(selected[i])]

backfill_SummaryOfItems(items) ==
    IF items = <<>> THEN <<>>
    ELSE normalizeSummaryText(
             RenderSentence(
                 backfill_RenderParts(SelectItems(SortByPriority(items), <<>>))))

backfill_HasKnownSection(blockLines) ==
    \E k \in 1..Len(blockLines) : backfill_IsTitleAt(blockLines, k)

backfill_SummaryOfBlock(blockLines, block) ==
    IF block = <<>> THEN <<>>
    ELSE IF ~backfill_HasKnownSection(blockLines) THEN normalizeSummaryText(block)
    ELSE backfill_SummaryOfItems(backfill_ParseItems(blockLines))

backfill_SummaryAfterMarker(blockLines) ==
    backfill_SummaryOfBlock(blockLines, trim(join(blockLines, <<"\n">>)))

backfill_SummaryOfLines(lines, startIdx) ==
    IF startIdx = 0 THEN <<>>
    ELSE backfill_SummaryAfterMarker(backfill_BlockLines(lines, startIdx))

backfill_extractCodeRabbitSummary(body) ==
    IF NoBody(body) THEN <<>>
    ELSE backfill_SummaryOfLines(LinesOf(body), MarkerIndex(LinesOf(body)))

backfill_extractPreferredSummaryFromBody(body) ==
    IF NoBody(body) THEN <<>>
    ELSE OrElse(backfill_extractCodeRabbitSummary(body), FirstHeadingSummary(body, 1))
(***************************************************************************)
(* Display entries and the release document.                               *)
(***************************************************************************)
REPOS == <<"revive-dashboard", "revive-admin", "revive-mobile", "revive-api">>

RepoSet == {REPOS[i] : i \in 1..Len(REPOS)}

\* RELEASE_VERSION of the run
Version == "v1.4.0"

\* pr.merged_at of a pull request that was not merged (null); a merge time
\* is a positive number, ordered as the ISO timestamps are
NotMerged == 0

\* what a regular expression is tested against: RegExp.prototype.test
\* converts null to the text 'null'
TestSubject(title) == IF title = Absent THEN <<"n","u","l","l">> ELSE title

\* pr.title || ''
OriginalTitle(pr) == IF pr.title = Absent THEN <<>> ELSE pr.title

\* if (isSprint && /^Sprint\s+\d+$/i.test(displaySummary)) the suffix is added
WithSprintSuffix(originalTitle, displaySummary) ==
    IF IsSprintTitle(originalTitle) /\ IsBareSprint(displaySummary)
    THEN displaySummary \o ReleaseBundleSuffix
    ELSE displaySummary

\* toSingleLineSummary(preferredSummary) || cleanPRTitle(originalTitle)
SummaryOrTitle(preferredSummary, originalTitle) ==
    OrElse(toSingleLineSummary(preferredSummary, DefaultMaxLen),
           cleanPRTitle(originalTitle))

\* displaySummary of main(): the preferred summary of the body on one line,
\* else the cleaned title, with the sprint suffix
DisplaySummary(originalTitle, preferredSummary) ==
    WithSprintSuffix(originalTitle, SummaryOrTitle(preferredSummary, originalTitle))

\* BuildEntry with the fix tag taken from the display summary
BuildEntryTaggedBySummary(pr, preferredSummary) ==
    [number   |-> pr.number,
     title    |-> DisplaySummary(OriginalTitle(pr), preferredSummary),
     url      |-> <<pr.repo, pr.number>>,
     mergedAt |-> pr.mergedAt,
     isFix    |-> IsFixTitle(DisplaySummary(OriginalTitle(pr), preferredSummary)),
     isSprint |-> IsSprintTitle(OriginalTitle(pr))]

\* the entry main() pushes for a pull request whose body gave preferredSummary
BuildEntry(pr, preferredSummary) ==
    [number   |-> pr.number,
     title    |-> DisplaySummary(OriginalTitle(pr), preferredSummary),
     url      |-> <<pr.repo, pr.number>>,
     mergedAt |-> pr.mergedAt,
     isFix    |-> IsFixTitle(OriginalTitle(pr)),
     isSprint |-> IsSprintTitle(OriginalTitle(pr))]

\* SortByMergedAtDesc without the sort: the entries as they were pushed
KeepReceivedOrder(entries) == entries

\* Array.prototype.sort with byMergedAtDesc: stable, latest merge first
RECURSIVE SortByMergedAtDesc(_)
SortByMergedAtDesc(entries) ==
    IF entries = <<>> THEN <<>>
    ELSE SelectSeq(entries,
                   LAMBDA e : \A i \in 1..Len(entries) :
                       entries[i].mergedAt <= e.mergedAt)
            \o SortByMergedAtDesc(
                   SelectSeq(entries,
                             LAMBDA e : \E i \in 1..Len(entries) :
                                 entries[i].mergedAt > e.mergedAt))

\* REPOS.flatMap((r) => grouped[r] || []) from repository k on
RECURSIVE FlatFrom(_, _)
FlatFrom(g, k) ==
    IF k > Len(REPOS) THEN <<>> ELSE g[REPOS[k]] \o FlatFrom(g, k + 1)

AllPRs(g) == FlatFrom(g, 1)

Fixes(g) == SelectSeq(AllPRs(g), LAMBDA e : e.isFix)

\* Features with the sprint entries left in
FeaturesWithSprints(g) == SelectSeq(AllPRs(g), LAMBDA e : ~e.isFix)

Features(g) == SelectSeq(AllPRs(g), LAMBDA e : ~e.isFix /\ ~e.isSprint)

\* Highlights lists at most this many features
MaxHighlights == 6

\* a literal line of the document
TextLine(chars) ==
    [kind |-> "text", text |-> chars, number |-> 0, url |-> <<>>, repo |-> ""]

\* title: "${version}"
TitleLine ==
    [kind |-> "title", text |-> <<>>, number |-> 0, url |-> <<>>, repo |-> Version]

\* - ${pr.title}
HighlightLine(e) ==
    [kind |-> "highlight", text |-> e.title, number |-> 0, url |-> <<>>,
     repo |-> ""]

\* - ${pr.title} ([#${pr.number}](${pr.url}))
EntryLine(e) ==
    [kind |-> "entry", text |-> e.title, number |-> e.number, url |-> e.url,
     repo |-> ""]

\* ### ${repo}
RepoLine(r) ==
    [kind |-> "repo", text |-> <<>>, number |-> 0, url |-> <<>>, repo |-> r]

\* features.slice(0, 6)
ShownFeatures(features) == SubSeq(features, 1, MinOf({Len(features), MaxHighlights}))

HighlightLinesOf(shown) == [i \in 1..Len(shown) |-> HighlightLine(shown[i])]

EntryLinesOf(prs) == [i \in 1..Len(prs) |-> EntryLine(prs[i])]

\* the lines under ## Highlights
HighlightLines(g) ==
    IF Features(g) # <<>> THEN HighlightLinesOf(ShownFeatures(Features(g)))
    ELSE IF Fixes(g) # <<>>
         THEN <<TextLine(<<"-"," ","B","u","g"," ","f","i","x","e","s"," ","a","n","d"," ","s","t","a","b","i","l","i","t","y"," ","i","m","p","r","o","v","e","m","e","n","t","s">>)>>
         ELSE <<TextLine(<<"-"," ","R","o","u","t","i","n","e"," ","m","a","i","n","t","e","n","a","n","c","e"," ","r","e","l","e","a","s","e">>)>>

\* RepoEntryLines without the line of a repository that has no entry
EntryLinesOnly(prs) == EntryLinesOf(prs)

\* the lines under the heading of one repository
RepoEntryLines(prs) ==
    IF prs = <<>> THEN <<TextLine(<<"N","o"," ","u","p","d","a","t","e","s"," ","i","n"," ","t","h","i","s"," ","r","e","l","e","a","s","e",".">>)>>
    ELSE EntryLinesOf(prs)

\* the subsections of the repositories from repository k on
RECURSIVE RepoLinesFrom(_, _)
RepoLinesFrom(g, k) ==
    IF k > Len(REPOS) THEN <<>>
    ELSE <<RepoLine(REPOS[k]), TextLine(<<>>)>>
            \o RepoEntryLines(g[REPOS[k]])
            \o <<TextLine(<<>>)>>
            \o RepoLinesFrom(g, k + 1)

\* the lines under ## Fixes
FixLines(g) ==
    IF Fixes(g) # <<>> THEN EntryLinesOf(Fixes(g))
    ELSE <<TextLine(<<"N","o"," ","b","u","g"," ","f","i","x","e","s"," ","i","n"," ","t","h","i","s"," ","r","e","l","e","a","s","e",".">>)>>

\* the lines of the release document
toReleaseNotesMdx(g) ==
    << TextLine(<<"-","-","-">>),
       TitleLine,
       TextLine(<<"d","e","s","c","r","i","p","t","i","o","n",":"," ","\"","R","e","v","i","v","e"," ","p","l","a","t","f","o","r","m"," ","p","r","o","d","u","c","t","i","o","n"," ","r","e","l","e","a","s","e","\"">>),
       TextLine(<<"-","-","-">>),
       TextLine(<<>>),
       TextLine(<<"#","#"," ","H","i","g","h","l","i","g","h","t","s">>),
       TextLine(<<>>) >>
    \o HighlightLines(g)
    \o << TextLine(<<>>),
          TextLine(<<"#","#"," ","C","h","a","n","g","e","s"," ","s","h","i","p","p","e","d"," ","t","o"," ","p","r","o","d","u","c","t","i","o","n">>),
          TextLine(<<>>) >>
    \o RepoLinesFrom(g, 1)
    \o << TextLine(<<"#","#"," ","F","i","x","e","s">>), TextLine(<<>>) >>
    \o FixLines(g)
    \o << TextLine(<<>>),
          TextLine(<<"#","#"," ","B","r","e","a","k","i","n","g"," ","c","h","a","n","g","e","s">>),
          TextLine(<<>>),
          TextLine(<<"N","o"," ","b","r","e","a","k","i","n","g"," ","c","h","a","n","g","e","s",".">>),
          TextLine(<<>>) >>

\* no file at a path
NoFile == <<>>

\* release-notes/index.mdx after updateIndexMdx: the card of the version goes
\* right after the <CardGroup cols={1}> tag unless its href is there already
updateIndexMdx(index) ==
    IF \E i \in 1..Len(index.cards) : index.cards[i] = Version THEN index
    ELSE [index EXCEPT !.cards = <<Version>> \o @]

\* releasesGroup.pages.find of the year group: its position, 0 when there
\* is none
YearGroupIndex(groups, year) ==
    MinOr({i \in 1..Len(groups) : groups[i].group = year}, 0)

\* if (!yearGroup) releasesGroup.pages.push({ group, pages: [] })
WithYearGroup(groups, year) ==
    IF YearGroupIndex(groups, year) = 0
    THEN Append(groups, [group |-> year, pages |-> <<>>])
    ELSE groups

\* if (!yearGroup.pages.includes(pagePath)) yearGroup.pages.unshift(pagePath)
WithPage(pages) ==
    IF \E i \in 1..Len(pages) : pages[i] = Version THEN pages
    ELSE <<Version>> \o pages

\* the page of the version added to the group at position k
AddPageAt(groups, k) == [groups EXCEPT ![k].pages = WithPage(@)]

\* the page of the version added to the group of the year
AddPage(groups, year) == AddPageAt(groups, YearGroupIndex(groups, year))

\* docs.json after updateDocsJson: the page of the version goes first in the
\* group of the year the clock shows, which is made when it is missing,
\* unless the page is in that group already; nothing happens without a
\* Releases group
updateDocsJson(docs, year) ==
    IF ~docs.hasReleases THEN docs
    ELSE [docs EXCEPT !.groups = AddPage(WithYearGroup(@, year), year)]
(***************************************************************************)
(* Inputs.                                                                 *)
(***************************************************************************)
\* all texts over an alphabet of at most n characters
TextsUpTo(alphabet, n) == UNION {[1..k -> alphabet] : k \in 0..n}

\* the longest text the normalizer is applied to
MaxNormLen == 5

NormalizeTexts == TextsUpTo({"-", " ", "\n", "a", "1", "."}, MaxNormLen)

\* the longest text and the largest maxLen toSingleLineSummary is applied to
MaxTruncLen == 6

MaxMaxLen == 5

TruncateTexts == TextsUpTo({"a", " ", "\n", "-"}, MaxTruncLen)

\* pull-request titles
FeatureTitle == <<"A","d","d"," ","d","a","r","k"," ","m","o","d","e">>

FixTitle == <<"f","i","x",":"," ","c","r","a","s","h"," ","o","n"," ","s","a","v","e">>

PrefixOnlyTitle == <<"f","i","x",":">>

SprintTitle == <<"S","p","r","i","n","t"," ","3">>

StagingTitle == <<"U","p","d","a","t","e"," ","s","t","a","g","i","n","g"," ","c","o","n","f","i","g">>

BranchTitle == <<"T","E","C","-","7","/","A","d","d","-","L","o","g","i","n","/","A","n","n","-","L","e","e">>

\* a title of DefaultMaxLen + 1 characters
LongTitle == [i \in 1..(DefaultMaxLen + 1) |-> IF i = 1 THEN "A" ELSE "a"]

EntryTitles ==
    {FeatureTitle, FixTitle, PrefixOnlyTitle, SprintTitle, StagingTitle,
     BranchTitle, LongTitle, Absent}

PipelineTitles == {FeatureTitle, FixTitle, SprintTitle, StagingTitle}

\* the lines pull-request bodies are made of
MarkerLine == <<"S","u","m","m","a","r","y"," ","b","y"," ","C","o","d","e","R","a","b","b","i","t">>

SummaryHeadingLine == <<"#","#"," ","S","u","m","m","a","r","y">>

OverviewHeadingLine == <<"#","#"," ","O","v","e","r","v","i","e","w">>

OtherHeadingLine == <<"#","#"," ","N","o","t","e","s">>

LabelLine == <<"N","e","w"," ","F","e","a","t","u","r","e","s">>

ItemLine == <<"-"," ","F","i","x"," ","l","o","g","i","n">>

BodyLines ==
    {MarkerLine, SummaryHeadingLine, OverviewHeadingLine, OtherHeadingLine,
     LabelLine, ItemLine, <<>>}

\* the most lines a generated body has
MaxBodyLines == 3

\* every body of at most MaxBodyLines lines, and the absent body
EntryBodies ==
    {join(ls, <<"\n">>) :
        ls \in UNION {[1..k -> BodyLines] : k \in 0..MaxBodyLines}}
      \cup {Absent}

\* a body whose summary reads as a fix and names staging
BaitBody == join(<<SummaryHeadingLine, <<"-"," ","F","i","x"," ","s","t","a","g","i","n","g"," ","l","o","g","i","n">>>>, <<"\n">>)

PipelineBodies == {Absent, BaitBody}

MergeTimes == {1, 2}

PipelineRepos == {"revive-admin", "revive-api"}

\* a pull request the search returned although it was never merged
UnmergedPR ==
    [title |-> FeatureTitle, body |-> Absent, repo |-> "revive-api",
     mergedAt |-> NotMerged]

\* what fetchPull may return in a release run
PipelinePRs ==
    [title : PipelineTitles, body : PipelineBodies, repo : PipelineRepos,
     mergedAt : MergeTimes]
      \cup {UnmergedPR}

\* what fetchPull may return in a run over one pull request
EntryPRs ==
    [title : EntryTitles, body : EntryBodies, repo : {"revive-api"},
     mergedAt : {1}]

\* the most pull requests a release run processes
MaxPRs == 2

\* what fetchPull may return first in a run that fills Highlights
BatchPRs ==
    [title : PipelineTitles, body : PipelineBodies, repo : {"revive-api"},
     mergedAt : {1}]

\* the feature pull requests the rest of such a run is made of
FeaturePRs ==
    [title : {FeatureTitle}, body : PipelineBodies, repo : {"revive-api"},
     mergedAt : {1}]

\* the pull requests of such a run that are drawn from BatchPRs
BatchLead == 2

\* one pull request more than Highlights lists
BatchSize == MaxHighlights + 1

\* the category labels of the sections of a generated structured block, in
\* the order the sections stand in the block
StructuredLabels ==
    << <<"B","u","g"," ","F","i","x","e","s">>, <<"N","e","w"," ","F","e","a","t","u","r","e","s">>, <<"I","m","p","r","o","v","e","m","e","n","t","s">>, <<"B","u","g"," ","F","i","x","e","s">>, <<"P","e","r","f","o","r","m","a","n","c","e">> >>

\* the most items a section of a generated structured block has
MaxItems == 3

\* one decimal digit as a character
DigitChar(n) == <<"0","1","2","3","4","5","6","7","8","9">>[n + 1]

\* the text of item n of section s: no item text is part of another, and none
\* is part of the words the rendering adds
ItemToken(s, n) == <<"q", DigitChar(s), DigitChar(n)>>

\* the lines of section s with count items
SectionLines(s, count) ==
    <<StructuredLabels[s]>> \o [n \in 1..count |-> <<"-"," ">> \o ItemToken(s, n)]

\* the lines of the sections from s on, counts giving the items of each
RECURSIVE StructuredLinesFrom(_, _)
StructuredLinesFrom(counts, s) ==
    IF s > Len(StructuredLabels) THEN <<>>
    ELSE SectionLines(s, counts[s]) \o StructuredLinesFrom(counts, s + 1)

\* a body that holds the marker and a sectioned block
StructuredBody(counts) ==
    join(<<MarkerLine>> \o StructuredLinesFrom(counts, 1), <<"\n">>)

StructuredInputs ==
    {[counts |-> c, body |-> StructuredBody(c)] :
        c \in [1..Len(StructuredLabels) -> 0..MaxItems]}

(***************************************************************************)
(* The state machine of a generator run.                                   *)
(***************************************************************************)
FreshFiles ==
    /\ mdx = NoFile
    /\ indexMdx = [hasGroupTag |-> TRUE, cards |-> <<>>]
    /\ docsJson = [hasReleases |-> TRUE, groups |-> <<>>]
    /\ overwrite = FALSE

\* no ghJson call of the backfill script
NoCall == [retries |-> 0, attempt |-> 0, statuses |-> <<>>, last |-> <<>>,
           waits |-> <<>>, error |-> <<>>]

\* no backfill run
NoRun == [targetReleases |-> <<>>, next |-> 0, disk |-> {}, fetched |-> {},
          written |-> {}, warned |-> {}, failed |-> {},
          generatedVersions |-> <<>>]

\* the clock shows the first year and the backfill script is not running
GeneratorOnly == now = 1 /\ call = NoCall /\ run = NoRun

Init ==
    /\ pc = "loop"
    /\ grouped = [r \in RepoSet |-> <<>>]
    /\ log = <<>>
    /\ FreshFiles
    /\ GeneratorOnly
    /\ fnArg = <<>>
    /\ fnRes = <<>>

\* the pull request fetchPull returns for the next search result
Fetched(fetched, number) ==
    [number   |-> number,
     title    |-> fetched.title,
     body     |-> fetched.body,
     repo     |-> fetched.repo,
     mergedAt |-> fetched.mergedAt]

\* if (!pr.merged_at) continue; if (shouldExcludePRTitle(pr.title)) continue;
Skipped(pr) ==
    pr.mergedAt = NotMerged \/ shouldExcludePRTitle(TestSubject(pr.title))

\* the summary of a pull request that was dropped: none was extracted
NotExtracted == <<"undefined">>

\* the rest of the turn for a pull request that is kept: preferredSummary is
\* extracted from the body, the entry is built from it and pushed
PushEntry(pr, preferredSummary) ==
    /\ log' = Append(log, [pr |-> pr, kept |-> TRUE, summary |-> preferredSummary])
    /\ grouped' = [grouped EXCEPT ![pr.repo] =
                       Append(@, BuildEntry(pr, preferredSummary))]

\* one turn of the loop of main() for the pull request pr
ProcessPR(pr) ==
    IF Skipped(pr)
    THEN /\ log' = Append(log, [pr |-> pr, kept |-> FALSE, summary |-> NotExtracted])
         /\ UNCHANGED grouped
    ELSE PushEntry(pr, extractPreferredSummaryFromBody(pr.body))

\* one turn of the loop of main() over the search results: the pull request
\* is fetched, dropped when it is not merged or its title is excluded, and
\* pushed as an entry otherwise
ProcessItem(universe, max) ==
    /\ pc = "loop"
    /\ Len(log) < max
    /\ \E fetched \in universe : ProcessPR(Fetched(fetched, Len(log) + 1))
    /\ UNCHANGED <<pc, mdx, indexMdx, docsJson, overwrite, fnArg, fnRes,
                   now, call, run>>

\* the end of main(): the groups are sorted, the document is written unless
\* it exists and overwriting is off, then the index and docs.json are updated
Finish ==
    /\ pc = "loop"
    /\ grouped' = [r \in RepoSet |-> SortByMergedAtDesc(grouped[r])]
    /\ IF mdx # NoFile /\ ~overwrite
       THEN /\ pc' = "error"
            /\ UNCHANGED <<mdx, indexMdx, docsJson>>
       ELSE /\ mdx' = toReleaseNotesMdx(grouped')
            /\ IF ~indexMdx.hasGroupTag /\ updateIndexMdx(indexMdx) # indexMdx
               THEN /\ pc' = "error"
                    /\ UNCHANGED <<indexMdx, docsJson>>
               ELSE /\ pc' = "done"
                    /\ indexMdx' = updateIndexMdx(indexMdx)
                    /\ docsJson' = updateDocsJson(docsJson, now)
    /\ UNCHANGED <<log, overwrite, fnArg, fnRes, now, call, run>>

Next == ProcessItem(PipelinePRs, MaxPRs) \/ Finish

Spec == Init /\ [][Next]_vars

\* a run over one pull request, drawn from every title and every body
NextEntry == ProcessItem(EntryPRs, 1) \/ Finish

SpecEntry == Init /\ [][NextEntry]_vars

\* what fetchPull may return for the next search result of a run that
\* fills Highlights
BatchUniverse == IF Len(log) < BatchLead THEN BatchPRs ELSE FeaturePRs

\* a run over enough pull requests to fill Highlights
NextBatch == ProcessItem(BatchUniverse, BatchSize) \/ Finish

SpecBatch == Init /\ [][NextBatch]_vars

(***************************************************************************)
(* The text helpers applied to bounded inputs.                             *)
(***************************************************************************)
InitCall(inputs) ==
    /\ pc = "call"
    /\ fnArg \in inputs
    /\ fnRes = <<>>
    /\ grouped = [r \in RepoSet |-> <<>>]
    /\ log = <<>>
    /\ FreshFiles
    /\ GeneratorOnly

UnchangedRun ==
    UNCHANGED <<grouped, log, mdx, indexMdx, docsJson, overwrite, now, call, run>>

Normalize ==
    /\ pc = "call"
    /\ fnRes' = normalizeSummaryText(fnArg)
    /\ pc' = "once"
    /\ UNCHANGED fnArg
    /\ UnchangedRun

\* the normalizer applied to its own result
NormalizeAgain ==
    /\ pc = "once"
    /\ fnArg' = fnRes
    /\ fnRes' = normalizeSummaryText(fnRes)
    /\ pc' = "twice"
    /\ UnchangedRun

InitNormalize == InitCall(NormalizeTexts)

NextNormalize == Normalize \/ NormalizeAgain

SpecNormalize == InitNormalize /\ [][NextNormalize]_vars

Truncate ==
    /\ pc = "call"
    /\ fnRes' = toSingleLineSummary(fnArg.text, fnArg.maxLen)
    /\ pc' = "return"
    /\ UNCHANGED fnArg
    /\ UnchangedRun

InitTruncate == InitCall([text : TruncateTexts, maxLen : 0..MaxMaxLen])

NextTruncate == Truncate

SpecTruncate == InitTruncate /\ [][NextTruncate]_vars

\* the structured extractor applied to a body with a sectioned block
ExtractStructured ==
    /\ pc = "call"
    /\ fnRes' = extractCodeRabbitSummary(fnArg.body)
    /\ pc' = "return"
    /\ UNCHANGED fnArg
    /\ UnchangedRun

InitStructured == InitCall(StructuredInputs)

NextStructured == ExtractStructured

SpecStructured == InitStructured /\ [][NextStructured]_vars

(***************************************************************************)
(* Properties of the display entries.                                      *)
(***************************************************************************)
\* the entries pushed so far, of every repository
AllEntries ==
    UNION {{grouped[r][i] : i \in DOMAIN grouped[r]} : r \in RepoSet}

\* the entry pushed for the pull request with the given number
EntryOf(n) == CHOOSE e \in AllEntries : e.number = n

\* the pull requests of the log that were kept
KeptPRs == {i \in 1..Len(log) : log[i].kept}

\* C1: every display entry has a non-empty title, whatever the original
\* title and the body were and whichever source supplied the title.
C1_EveryTitleNonEmpty == \A e \in AllEntries : e.title # <<>>

\* C2: every display entry's title is at most 200 characters long, also when
\* it is the cleaned title and when the sprint suffix was appended.
C2_EveryTitleWithinMaxLen == \A e \in AllEntries : Len(e.title) <= DefaultMaxLen

(***************************************************************************)
(* Properties of the truncation and of the normalizer.                     *)
(***************************************************************************)
\* C3 as stated: for every text and every maxLen, toSingleLineSummary gives
\* a text of at most maxLen characters, the ellipsis counting as one.
C3_LengthAtMostMaxLen ==
    pc = "return" => Len(fnRes) <= fnArg.maxLen

\* C3 amended: for every text and every maxLen of at least 1,
\* toSingleLineSummary gives a text of at most maxLen characters, the
\* ellipsis counting as one, on the word-boundary cut and on the hard cut.
C3_LengthAtMostPositiveMaxLen ==
    (pc = "return" /\ fnArg.maxLen >= 1) => Len(fnRes) <= fnArg.maxLen

\* a summary longer than maxLen was cut at its last space, and the result
\* with the ellipsis is maxLen characters long
C3_CutAtWordBoundary ==
    /\ pc = "return"
    /\ fnArg = [text |-> <<"a","a","a","a"," ","a">>, maxLen |-> 5]
    /\ fnRes = <<"a","a","a","a">> \o Ellipsis

\* C4: the normalizer is idempotent: normalizing a normalized text gives the
\* same text, stacked list markers included.
C4_NormalizeIdempotent == pc = "twice" => fnRes = fnArg

(***************************************************************************)
(* Properties of the structured-summary extractor.                         *)
(***************************************************************************)
\* the text p stands somewhere in s, compared without case
Occurs(p, s) == \E i \in 1..Len(s) : MatchesAtCI(s, i, p)

\* the items of the generated block, as pairs of section and item number
BlockItems ==
    {sn \in (1..Len(StructuredLabels)) \X (1..MaxItems) :
        sn[2] <= fnArg.counts[sn[1]]}

\* the items of the generated block that the rendered sentence carries
RenderedItems == {sn \in BlockItems : Occurs(ItemToken(sn[1], sn[2]), fnRes)}

\* the items among S that stand under the given category label
UnderLabel(S, label) == {sn \in S : StructuredLabels[sn[1]] = label}

\* C5: the sentence rendered from a sectioned block carries at most 4 items
\* in total and at most 2 items of any one category label.
C5_AtMostFourItemsTwoPerLabel ==
    pc = "return" =>
        /\ Cardinality(RenderedItems) <= 4
        /\ \A s \in 1..Len(StructuredLabels) :
               Cardinality(UnderLabel(RenderedItems, StructuredLabels[s])) <= 2

\* a block with more than 4 items, more than 2 of them under one label, was
\* rendered, and the sentence carries 4 of them
C5_CapsReached ==
    /\ pc = "return"
    /\ Cardinality(BlockItems) > 4
    /\ \E s \in 1..Len(StructuredLabels) :
           /\ Cardinality(UnderLabel(BlockItems, StructuredLabels[s])) > 2
           /\ Cardinality(UnderLabel(RenderedItems, StructuredLabels[s])) = 2
    /\ Cardinality(RenderedItems) = 4

(***************************************************************************)
(* Properties of the classification and of the exclusion.                  *)
(***************************************************************************)
\* the line ## Fixes of the document
FixesAt == CHOOSE k \in 1..Len(mdx) : mdx[k] = TextLine(<<"#","#"," ","F","i","x","e","s">>)

\* the pull requests the document lists under ## Fixes
FixesOfDoc ==
    {mdx[k].number :
        k \in {n \in 1..Len(mdx) : n > FixesAt /\ mdx[n].kind = "entry"}}

\* the bullets under ## Highlights
HighlightsOfDoc == SelectSeq(mdx, LAMBDA l : l.kind = "highlight")

\* the feature entries whose titles are bullets: bullet k is the title of
\* the k-th feature entry
BulletedAmong(features, bullets) ==
    {features[k].number :
        k \in {n \in 1..Len(bullets) :
                  n <= Len(features) /\ bullets[n].text = features[n].title}}

\* the pull requests the document lists under ## Highlights
HighlightedOfDoc == BulletedAmong(Features(grouped), HighlightsOfDoc)

\* the pull requests i and j of the log were both kept or both dropped and,
\* when kept, carry the same fix and sprint tags
SameDecisionAndTags(i, j) ==
    /\ log[i].kept = log[j].kept
    /\ log[i].kept =>
           /\ EntryOf(i).isFix = EntryOf(j).isFix
           /\ EntryOf(i).isSprint = EntryOf(j).isSprint

\* the pairs of pull requests of the log with one original title and
\* different bodies
SameTitlePairs ==
    {ij \in (1..Len(log)) \X (1..Len(log)) :
        /\ log[ij[1]].pr.title = log[ij[2]].pr.title
        /\ log[ij[1]].pr.body # log[ij[2]].pr.body}

\* C6 as stated: two pull requests with the same original title get the same
\* exclusion decision and the same tags, whatever their bodies, and so both
\* stand under Highlights or neither does, and both under Fixes or neither.
C6_SameTitleSameSections ==
    /\ \A ij \in SameTitlePairs : SameDecisionAndTags(ij[1], ij[2])
    /\ pc = "done" =>
           LET fixed == FixesOfDoc
               highlighted == HighlightedOfDoc
           IN  \A ij \in SameTitlePairs :
                   /\ ij[1] \in fixed <=> ij[2] \in fixed
                   /\ ij[1] \in highlighted <=> ij[2] \in highlighted

\* C6 amended: two pull requests with the same original title get the same
\* exclusion decision and the same tags, whatever their bodies; both stand
\* under Fixes or neither does; and both stand under Highlights or neither
\* does whenever the release has at most six feature entries.
C6_SameTitleSameClass ==
    /\ \A ij \in SameTitlePairs : SameDecisionAndTags(ij[1], ij[2])
    /\ pc = "done" =>
           LET fixed == FixesOfDoc
               highlighted == HighlightedOfDoc
               features == Len(Features(grouped))
           IN  \A ij \in SameTitlePairs :
                   /\ ij[1] \in fixed <=> ij[2] \in fixed
                   /\ features <= 6 =>
                          (ij[1] \in highlighted <=> ij[2] \in highlighted)

\* a written document lists two fixes with one title and different bodies
\* under Fixes, and two features with one title and different bodies under
\* Highlights
C6_SameTitleTwoBodies ==
    /\ pc = "done"
    /\ \E i, j \in 1..Len(log) :
           /\ log[i].pr.title = log[j].pr.title
           /\ log[i].pr.body # log[j].pr.body
           /\ i \in FixesOfDoc /\ j \in FixesOfDoc
    /\ \E i, j \in 1..Len(log) :
           /\ log[i].pr.title = log[j].pr.title
           /\ log[i].pr.body # log[j].pr.body
           /\ i \in HighlightedOfDoc /\ j \in HighlightedOfDoc

\* C7: a pull request whose title holds the whole word staging is dropped
\* before its summary is extracted: it has no entry, no line of the document
\* names it, and every bullet under Highlights is the title of an entry.
C7_StagingTitleDropped ==
    /\ \A i \in 1..Len(log) :
           ContainsWord(TestSubject(log[i].pr.title), <<"s","t","a","g","i","n","g">>) =>
               /\ ~log[i].kept
               /\ log[i].summary = NotExtracted
               /\ \A e \in AllEntries : e.number # i
               /\ \A k \in 1..Len(mdx) : mdx[k].number # i
    /\ \A k \in 1..Len(mdx) :
           mdx[k].kind = "highlight" =>
               \E e \in AllEntries :
                   e.title = mdx[k].text /\ e.number \in KeptPRs

\* a document was written after 'Update staging config' and a pull request
\* that was kept were processed
C7_StagingAmongKept ==
    /\ pc = "done"
    /\ \E i \in 1..Len(log) : log[i].pr.title = StagingTitle
    /\ KeptPRs # {}

(***************************************************************************)
(* Properties of the summary selector.                                     *)
(***************************************************************************)
\* the title of an entry whose summary is the given one
TitleFrom(originalTitle, summary) ==
    WithSprintSuffix(originalTitle, toSingleLineSummary(summary, DefaultMaxLen))

\* the title of an entry that falls back to the cleaned title
FallbackTitle(originalTitle) ==
    WithSprintSuffix(originalTitle, cleanPRTitle(originalTitle))

\* C8: the selected summary is the structured summary whenever that is not
\* empty, also when a summary heading has a section; it is the heading
\* section only when the structured summary is empty; and the title is the
\* cleaned title only when both are empty.
C8_PreferenceOrder ==
    \A i \in KeptPRs :
        LET structured == extractCodeRabbitSummary(log[i].pr.body)
            section == FirstHeadingSummary(log[i].pr.body, 1)
        IN  /\ structured # <<>> => log[i].summary = structured
            /\ structured = <<>> => log[i].summary = section
            /\ EntryOf(i).title =
                   IF log[i].summary # <<>>
                   THEN TitleFrom(OriginalTitle(log[i].pr), log[i].summary)
                   ELSE FallbackTitle(OriginalTitle(log[i].pr))

\* a body has a structured summary and a different section under a summary
\* heading, and the structured summary was selected
C8_BothSourcesPresent ==
    \E i \in KeptPRs :
        /\ log[i].pr.body =
               join(<<SummaryHeadingLine, MarkerLine, ItemLine>>, <<"\n">>)
        /\ extractCodeRabbitSummary(log[i].pr.body) = <<"F","i","x"," ","l","o","g","i","n">>
        /\ FirstHeadingSummary(log[i].pr.body, 1) = <<"S","u","m","m","a","r","y"," ","b","y"," ","C","o","d","e","R","a","b","b","i","t">> \o <<"\n">> \o <<"F","i","x"," ","l","o","g","i","n">>
        /\ log[i].summary = <<"F","i","x"," ","l","o","g","i","n">>
        /\ EntryOf(i).title = <<"F","i","x"," ","l","o","g","i","n">>

\* no line of the body is the marker line or a summary heading
PlainBody(body) ==
    \/ body = Absent
    \/ \A k \in 1..Len(LinesOf(body)) :
           LinesOf(body)[k]
               \notin {MarkerLine, SummaryHeadingLine, OverviewHeadingLine}

\* C9 as stated: for a body with neither a marker line nor a summary
\* heading the selected summary is empty and the display title is exactly
\* the cleaned original title.
C9_PlainBodyGivesCleanedTitle ==
    \A i \in KeptPRs :
        PlainBody(log[i].pr.body) =>
            /\ log[i].summary = <<>>
            /\ EntryOf(i).title = cleanPRTitle(OriginalTitle(log[i].pr))

\* C9 amended: for a body with neither a marker line nor a summary heading
\* the selected summary is empty and the display title is the cleaned
\* original title, followed by ' release bundle' when the original title
\* starts with 'Sprint <N>' and the cleaned title reads 'Sprint <N>' only.
C9_PlainBodyGivesFallbackTitle ==
    \A i \in KeptPRs :
        PlainBody(log[i].pr.body) =>
            /\ log[i].summary = <<>>
            /\ EntryOf(i).title =
                   IF /\ IsSprintTitle(OriginalTitle(log[i].pr))
                      /\ IsBareSprint(cleanPRTitle(OriginalTitle(log[i].pr)))
                   THEN cleanPRTitle(OriginalTitle(log[i].pr)) \o <<" ","r","e","l","e","a","s","e"," ","b","u","n","d","l","e">>
                   ELSE cleanPRTitle(OriginalTitle(log[i].pr))

\* a pull request titled as a branch, whose body has text but no marker and
\* no summary heading, was given its cleaned title
C9_PlainBodyWithText ==
    \E i \in KeptPRs :
        /\ log[i].pr.title = BranchTitle
        /\ log[i].pr.body = join(<<OtherHeadingLine, ItemLine>>, <<"\n">>)
        /\ log[i].summary = <<>>
        /\ EntryOf(i).title = <<"A","d","d"," ","L","o","g","i","n">>

\* the lines of a body after its first marker line
AfterMarker(ls) ==
    SubSeq(ls, MinOf({k \in 1..Len(ls) : ls[k] = MarkerLine}) + 1, Len(ls))

\* the lines of rest before its first marker or heading line
UpToBoundary(rest) ==
    SubSeq(rest, 1,
           MinOr({k \in 1..Len(rest) :
                     rest[k] \in {MarkerLine, SummaryHeadingLine,
                                  OverviewHeadingLine, OtherHeadingLine}},
                 Len(rest) + 1) - 1)

\* a block with no item under a label: nothing but blank lines, labels
\* without items, or items before the first label only
NoItemUnderLabel(block) ==
    \/ \A k \in 1..Len(block) : block[k] # ItemLine
    \/ /\ \E k \in 1..Len(block) : block[k] = LabelLine
       /\ \A k \in 1..Len(block) :
              block[k] = ItemLine => \A j \in 1..k : block[j] # LabelLine

\* no line of the body is a summary heading
NoSummaryHeading(body) ==
    \A k \in 1..Len(LinesOf(body)) :
        LinesOf(body)[k] \notin {SummaryHeadingLine, OverviewHeadingLine}

\* the body holds a marker line followed by a malformed or partial block
MalformedBlock(body) ==
    /\ body # Absent
    /\ \E k \in 1..Len(LinesOf(body)) : LinesOf(body)[k] = MarkerLine
    /\ NoItemUnderLabel(UpToBoundary(AfterMarker(LinesOf(body))))

\* C10: the run raises no error on abnormal input: an absent or empty body
\* gives the empty summary, and a marker followed by nothing, by labels
\* without items or by lines before the first label only gives no
\* structured summary, so that the heading section is selected and, when
\* there is none, the cleaned title becomes the display title.
C10_AbnormalInputFallsThrough ==
    /\ pc # "error"
    /\ \A i \in KeptPRs :
           /\ log[i].pr.body \in {Absent, <<>>} => log[i].summary = <<>>
           /\ MalformedBlock(log[i].pr.body) =>
                  /\ log[i].summary = FirstHeadingSummary(log[i].pr.body, 1)
                  /\ NoSummaryHeading(log[i].pr.body) => log[i].summary = <<>>
                  /\ log[i].summary = <<>> =>
                         EntryOf(i).title = FallbackTitle(OriginalTitle(log[i].pr))

\* a body whose block has an item before its only label was processed, no
\* summary was selected and the cleaned title became the display title
C10_ItemsBeforeLabelOnly ==
    \E i \in KeptPRs :
        /\ log[i].pr.title = FeatureTitle
        /\ log[i].pr.body = join(<<MarkerLine, ItemLine, LabelLine>>, <<"\n">>)
        /\ log[i].summary = <<>>
        /\ EntryOf(i).title = FeatureTitle


(***************************************************************************)
(* The title cleaner and the structured extractor applied to bounded       *)
(* inputs.                                                                 *)
(***************************************************************************)
\* the longest generated raw title
MaxTitleLen == 4

\* the first example of the documentation of cleanPRTitle
DocBranchTitle == <<"T","E","C","-","7","0","9","7","/","W","e","e","k","l","y","-","U","p","d","a","t","e","-","C","h","a","r","a","c","t","e","r","-","L","i","m","i","t","/","C","a","r","l","o","-","S","a","n","c","h","e","z">>

\* the second example of the documentation of cleanPRTitle
DocPrefixTitle == <<"f","e","a","t","(","T","E","C","-","6","5","2","0",")",":"," ","A","l","l","o","w"," ","d","e","l","e","t","i","n","g"," ","L","4"," ","i","t","e","m","s"," ","i","n"," ","c","h","a","n","g","e"," ","o","r","d","e","r","s">>

\* the raw titles cleanPRTitle is applied to: every short text over a
\* conventional type, the colon, the hyphen, the space and a capital, and
\* the titles of the pipeline
CleanTitles ==
    TextsUpTo({"c", "i", ":", "-", " ", "A"}, MaxTitleLen)
      \cup {DocBranchTitle, DocPrefixTitle, FeatureTitle, FixTitle,
            PrefixOnlyTitle, SprintTitle, BranchTitle}

Clean ==
    /\ pc = "call"
    /\ fnRes' = cleanPRTitle(fnArg)
    /\ pc' = "return"
    /\ UNCHANGED fnArg
    /\ UnchangedRun

InitClean == InitCall(CleanTitles)

NextClean == Clean

SpecClean == InitClean /\ [][NextClean]_vars

\* the item texts of a generated block of one-item sections: section k
\* holds item k
RenderTexts == << <<"A","d","d","e","d"," ","d","a","r","k"," ","m","o","d","e">>, <<"F","i","x","e","d"," ","c","r","a","s","h"," ","o","n"," ","s","a","v","e">>, <<"U","p","d","a","t","e","d"," ","d","o","c","s">> >>

\* the labels a section of such a block may carry
RenderLabels == {CODERABBIT_SECTION_TITLES_LIST[i] :
                    i \in 1..Len(CODERABBIT_SECTION_TITLES_LIST)}

\* the lines of the sections from k on, labels giving the label of each
RECURSIVE RenderLinesFrom(_, _)
RenderLinesFrom(labels, k) ==
    IF k > Len(labels) THEN <<>>
    ELSE <<labels[k], <<"-"," ">> \o RenderTexts[k]>> \o RenderLinesFrom(labels, k + 1)

\* a body that holds the marker and the one-item sections
RenderBody(labels) == join(<<MarkerLine>> \o RenderLinesFrom(labels, 1), <<"\n">>)

RenderInputs ==
    {[labels |-> ls, body |-> RenderBody(ls)] :
        ls \in UNION {[1..n -> RenderLabels] : n \in 1..Len(RenderTexts)}}

InitRender == InitCall(RenderInputs)

NextRender == ExtractStructured

SpecRender == InitRender /\ [][NextRender]_vars

\* the most lines a generated body has after its marker line
MaxCaptureLines == 3

\* the kinds of lines that follow the marker in a generated body
CaptureKinds == {"item", "blank", "marker", "heading", "image", "comment"}

\* the comment that closes the auto-generated content
CommentEndLine == <<"<","!","-","-"," ","e","n","d"," ","o","f"," ","a","u","t","o","-","g","e","n","e","r","a","t","e","d"," ","c","o","m","m","e","n","t",":"," ","r","e","l","e","a","s","e"," ","n","o","t","e","s"," ","b","y"," ","c","o","d","e","r","a","b","b","i","t",".","a","i"," ","-","-",">">>

\* the text of the item on line k after the marker
CaptureToken(k) == <<"q", DigitChar(k)>>

\* line k after the marker, of the given kind
CaptureLine(kind, k) ==
    CASE kind = "item" -> <<"-"," ">> \o CaptureToken(k)
      [] kind = "blank" -> <<>>
      [] kind = "marker" -> <<"#","#"," ","S","u","m","m","a","r","y"," ","b","y"," ","C","o","d","e","R","a","b","b","i","t">>
      [] kind = "heading" -> <<"#","#","#"," ","N","o","t","e","s">>
      [] kind = "image" -> <<" ","I","m","a","g","e">>
      [] kind = "comment" -> CommentEndLine

\* a body that holds the marker and the lines of the given kinds
CaptureBody(kinds) ==
    join(<<MarkerLine>> \o [k \in 1..Len(kinds) |-> CaptureLine(kinds[k], k)],
         <<"\n">>)

CaptureInputs ==
    {[kinds |-> ks, body |-> CaptureBody(ks)] :
        ks \in UNION {[1..n -> CaptureKinds] : n \in 0..MaxCaptureLines}}

InitCapture == InitCall(CaptureInputs)

NextCapture == ExtractStructured

SpecCapture == InitCapture /\ [][NextCapture]_vars

(***************************************************************************)
(* Properties of the release document.                                     *)
(***************************************************************************)
\* the line of the document that reads as the given literal text
LineAt(chars) == CHOOSE k \in 1..Len(mdx) : mdx[k] = TextLine(chars)

\* line k of the document opens a section or a subsection
IsHeadLine(k) ==
    \/ mdx[k].kind = "repo"
    \/ /\ mdx[k].kind = "text"
       /\ Len(mdx[k].text) >= 3
       /\ SubSeq(mdx[k].text, 1, 3) = <<"#","#"," ">>

\* the first heading line after line k, or the end of the document
NextHeadLine(k) ==
    MinOr({j \in (k + 1)..Len(mdx) : IsHeadLine(j)}, Len(mdx) + 1)

\* the lines under the heading on line k, blank lines left out
BodyUnder(k) ==
    SelectSeq(SubSeq(mdx, k + 1, NextHeadLine(k) - 1),
              LAMBDA l : l # TextLine(<<>>))

\* the repositories of the subsection headings of the document, in order
RepoHeadings ==
    LET heads == SelectSeq(mdx, LAMBDA l : l.kind = "repo")
    IN  [k \in 1..Len(heads) |-> heads[k].repo]

\* the lines under the subsection heading of repository r
RepoBodyOfDoc(r) == BodyUnder(CHOOSE k \in 1..Len(mdx) : mdx[k] = RepoLine(r))

\* a bullet of the document whose title breaks the line
BrokenBullet(l) ==
    /\ l.kind \in {"entry", "highlight"}
    /\ \E i \in 1..Len(l.text) : l.text[i] \in {"\n", "\r"}

\* C11: the document has exactly one subsection per configured repository,
\* in configured order, whatever the grouped entries are, and the body of
\* the subsection of a repository without entries is the one line
\* 'No updates in this release.'; no title breaks the line it stands on.
C11_OneSubsectionPerRepository ==
    pc = "done" =>
        /\ RepoHeadings = REPOS
        /\ \A r \in RepoSet :
               grouped[r] = <<>> =>
                   RepoBodyOfDoc(r) = <<TextLine(<<"N","o"," ","u","p","d","a","t","e","s"," ","i","n"," ","t","h","i","s"," ","r","e","l","e","a","s","e",".">>)>>
        /\ \A r \in RepoSet :
               grouped[r] # <<>> =>
                   /\ Len(RepoBodyOfDoc(r)) = Len(grouped[r])
                   /\ \A k \in 1..Len(RepoBodyOfDoc(r)) :
                          RepoBodyOfDoc(r)[k].kind = "entry"
        /\ \A k \in 1..Len(mdx) : ~BrokenBullet(mdx[k])

\* a document was written for a release with entries in revive-admin and
\* none in revive-mobile, and revive-mobile has the placeholder line
C11_EmptyRepositoryRendered ==
    /\ pc = "done"
    /\ grouped["revive-admin"] # <<>>
    /\ grouped["revive-mobile"] = <<>>
    /\ RepoBodyOfDoc("revive-mobile") = <<TextLine(<<"N","o"," ","u","p","d","a","t","e","s"," ","i","n"," ","t","h","i","s"," ","r","e","l","e","a","s","e",".">>)>>
    /\ RepoBodyOfDoc("revive-admin")[1].kind = "entry"

\* the bullet a comes before the bullet b in the order of the claim: a was
\* merged later, or at the same time and received earlier
MergedLaterOrReceivedFirst(a, b) ==
    \/ log[a.number].pr.mergedAt > log[b.number].pr.mergedAt
    \/ /\ log[a.number].pr.mergedAt = log[b.number].pr.mergedAt
       /\ a.number < b.number

\* C12: within every repository subsection of the document the entries
\* stand by merge time, latest first, and entries merged at the same time
\* stand in the order their pull requests were received.
C12_LatestMergeFirstStable ==
    pc = "done" =>
        \A r \in RepoSet :
            LET body == RepoBodyOfDoc(r)
            IN  \A i, j \in 1..Len(body) :
                    (i < j /\ body[i].kind = "entry") =>
                        MergedLaterOrReceivedFirst(body[i], body[j])

\* a repository subsection lists the pull request received second before
\* the one received first, because it was merged later
C12_LaterMergeMovedUp ==
    /\ pc = "done"
    /\ \E r \in RepoSet :
           /\ Len(RepoBodyOfDoc(r)) = 2
           /\ RepoBodyOfDoc(r)[1].kind = "entry"
           /\ RepoBodyOfDoc(r)[1].number = 2
           /\ RepoBodyOfDoc(r)[2].number = 1

\* the entries of the release that are neither fixes nor sprints, in the
\* order of the repositories
FeatureEntries == SelectSeq(AllPRs(grouped), LAMBDA e : ~e.isFix /\ ~e.isSprint)

\* the release has an entry tagged as a fix
SomeFixEntry == \E e \in AllEntries : e.isFix

\* the lines under ## Highlights
HighlightBodyOfDoc == BodyUnder(LineAt(<<"#","#"," ","H","i","g","h","l","i","g","h","t","s">>))

\* C13: Highlights lists the titles of the first feature entries, at most
\* 6 of them and no fix or sprint entry among them; without a feature entry
\* it is the line 'Bug fixes and stability improvements' when there is a
\* fix entry and the line 'Routine maintenance release' otherwise.
C13_HighlightsOnlyFeatures ==
    pc = "done" =>
        LET bullets == HighlightBodyOfDoc
            features == FeatureEntries
        IN  IF features # <<>>
            THEN /\ Len(bullets) <= 6
                 /\ Len(bullets) = MinOf({6, Len(features)})
                 /\ \A k \in 1..Len(bullets) :
                        /\ bullets[k].kind = "highlight"
                        /\ bullets[k].text = features[k].title
            ELSE IF SomeFixEntry
                 THEN bullets = <<TextLine(<<"-"," ","B","u","g"," ","f","i","x","e","s"," ","a","n","d"," ","s","t","a","b","i","l","i","t","y"," ","i","m","p","r","o","v","e","m","e","n","t","s">>)>>
                 ELSE bullets = <<TextLine(<<"-"," ","R","o","u","t","i","n","e"," ","m","a","i","n","t","e","n","a","n","c","e"," ","r","e","l","e","a","s","e">>)>>

\* a release with more than 6 feature entries was written with 6 bullets
\* under Highlights
C13_SixOfMoreFeatures ==
    /\ pc = "done"
    /\ Len(FeatureEntries) > 6
    /\ Len(HighlightBodyOfDoc) = 6

(***************************************************************************)
(* Properties of the rendering of a sectioned block.                       *)
(***************************************************************************)
\* the first position at which s reads p, compared without case, or 0
FirstAt(p, s) == MinOr({i \in 1..Len(s) : MatchesAtCI(s, i, p)}, 0)

\* s reads p, letter for letter, from position i on
ReadsAt(s, i, p) ==
    /\ i >= 1
    /\ i + Len(p) - 1 <= Len(s)
    /\ SubSeq(s, i, i + Len(p) - 1) = p

\* where the text of the item of section k stands in the rendered sentence,
\* or 0 when the sentence does not carry it
RenderPos(k) == FirstAt(toLowerCase(RenderTexts[k]), fnRes)

\* the sections of the generated block whose item the sentence carries
RenderedSections == {k \in 1..Len(fnArg.labels) : RenderPos(k) # 0}

\* C14: a Bug Fixes item (of at most 80 characters, so not clipped) is
\* rendered as 'fixed ' followed by its text with the first character
\* lower-cased, whatever the text reads; New Features / Added dark mode and
\* Bug Fixes / Fixed crash on save give
\* 'Added dark mode and fixed fixed crash on save'.
C14_FixedBeforeLowerCasedText ==
    pc = "return" =>
        /\ \A k \in RenderedSections :
               fnArg.labels[k] = <<"B","u","g"," ","F","i","x","e","s">> =>
                   /\ ReadsAt(fnRes, RenderPos(k), LowerFirst(RenderTexts[k]))
                   /\ MatchesAtCI(fnRes, RenderPos(k) - 6, <<"f","i","x","e","d"," ">>)
        /\ fnArg.labels = << <<"N","e","w"," ","F","e","a","t","u","r","e","s">>, <<"B","u","g"," ","F","i","x","e","s">> >> =>
               fnRes = <<"A","d","d","e","d"," ","d","a","r","k"," ","m","o","d","e"," ","a","n","d"," ","f","i","x","e","d"," ","f","i","x","e","d"," ","c","r","a","s","h"," ","o","n"," ","s","a","v","e">>

\* the block of the example was rendered with the doubled 'fixed'
C14_DoubleFixedRendered ==
    /\ pc = "return"
    /\ fnArg.body =
           join(<< <<"S","u","m","m","a","r","y"," ","b","y"," ","C","o","d","e","R","a","b","b","i","t">>, <<"N","e","w"," ","F","e","a","t","u","r","e","s">>, <<"-"," ","A","d","d","e","d"," ","d","a","r","k"," ","m","o","d","e">>,
                   <<"B","u","g"," ","F","i","x","e","s">>, <<"-"," ","F","i","x","e","d"," ","c","r","a","s","h"," ","o","n"," ","s","a","v","e">> >>, <<"\n">>)
    /\ fnRes = <<"A","d","d","e","d"," ","d","a","r","k"," ","m","o","d","e"," ","a","n","d"," ","f","i","x","e","d"," ","f","i","x","e","d"," ","c","r","a","s","h"," ","o","n"," ","s","a","v","e">>

(***************************************************************************)
(* Properties of the title cleaner.                                        *)
(***************************************************************************)
\* C15: the title cleaner turns a ticket-prefixed branch-name title into
\* its descriptive segment in sentence case:
\* 'TEC-7097/Weekly-Update-Character-Limit/Carlo-Sanchez' is cleaned to
\* 'Weekly update character limit'.
C15_BranchTitleInSentenceCase ==
    (pc = "return" /\ fnArg = DocBranchTitle) =>
        fnRes = <<"W","e","e","k","l","y"," ","u","p","d","a","t","e"," ","c","h","a","r","a","c","t","e","r"," ","l","i","m","i","t">>

\* C16: for every non-empty raw title cleanPRTitle returns a non-empty
\* text, also for a title that is only a conventional-commit prefix, only
\* hyphens or only whitespace.
C16_CleanTitleNonEmpty ==
    (pc = "return" /\ fnArg # <<>>) => fnRes # <<>>

(***************************************************************************)
(* Properties of the ranking and of the selection of items.                *)
(***************************************************************************)
\* the section-rank table as the claims give it
ClaimedRank(label) ==
    CASE label \in { <<"N","e","w"," ","F","e","a","t","u","r","e","s">>, <<"E","n","h","a","n","c","e","m","e","n","t","s">>, <<"B","r","e","a","k","i","n","g"," ","C","h","a","n","g","e","s">> } -> 0
      [] label = <<"B","u","g"," ","F","i","x","e","s">> -> 1
      [] label = <<"I","m","p","r","o","v","e","m","e","n","t","s">> -> 2
      [] label = <<"V","a","l","i","d","a","t","i","o","n">> -> 3
      [] label \in { <<"R","e","f","a","c","t","o","r">>, <<"P","e","r","f","o","r","m","a","n","c","e">> } -> 4
      [] label = <<"C","h","o","r","e","s">> -> 5
      [] label = <<"D","a","t","a">> -> 6
      [] label \in { <<"D","o","c","u","m","e","n","t","a","t","i","o","n">>, <<"T","e","s","t","s">> } -> 7
      [] label = <<"S","t","y","l","e">> -> 8
      [] label = <<"O","t","h","e","r"," ","C","h","a","n","g","e","s">> -> 9

\* item x of the generated block stands before item y in rank order: its
\* rank is less, or the ranks are equal and it stands earlier in the block
RankedBefore(x, y) ==
    \/ ClaimedRank(StructuredLabels[x[1]]) < ClaimedRank(StructuredLabels[y[1]])
    \/ /\ ClaimedRank(StructuredLabels[x[1]]) = ClaimedRank(StructuredLabels[y[1]])
       /\ \/ x[1] < y[1]
          \/ x[1] = y[1] /\ x[2] < y[2]

\* the items with fewer than 2 items of their category before them
WithinCategoryCap(items) ==
    {x \in items :
        Cardinality({y \in UnderLabel(items, StructuredLabels[x[1]]) :
                        RankedBefore(y, x)}) < 2}

\* the first 4 of the given items in rank order
FirstFour(items) ==
    {x \in items : Cardinality({y \in items : RankedBefore(y, x)}) < 4}

\* the sum over the given category labels of min(2, items of the category)
RECURSIVE CappedSum(_, _)
CappedSum(labels, items) ==
    IF labels = {} THEN 0
    ELSE LET l == CHOOSE x \in labels : TRUE
         IN  MinOf({2, Cardinality(UnderLabel(items, l))})
                + CappedSum(labels \ {l}, items)

\* the category labels of the generated block
StructuredLabelSet == {StructuredLabels[s] : s \in 1..Len(StructuredLabels)}

\* C17: the selection skips an item whose category has 2 selected items
\* already, without stopping and without counting it: the selected items
\* are the first 4, in rank order, of the items that have fewer than 2
\* items of their category before them, and their number is
\* min(4, sum over the categories of min(2, items of the category)).
C17_EarliestEligibleSelected ==
    pc = "return" =>
        LET items == BlockItems
            rendered == RenderedItems
        IN  /\ rendered = FirstFour(WithinCategoryCap(items))
            /\ Cardinality(rendered) =
                   MinOf({4, CappedSum(StructuredLabelSet, items)})

\* a block with 3 New Features items and Bug Fixes items was rendered: the
\* third New Features item was skipped and Bug Fixes items after it were
\* selected, 4 items in all
C17_SkippedAndWentOn ==
    /\ pc = "return"
    /\ fnArg.counts[2] = 3
    /\ <<2, 3>> \notin RenderedItems
    /\ <<2, 2>> \in RenderedItems
    /\ <<1, 1>> \in RenderedItems
    /\ Cardinality(RenderedItems) = 4

\* C18: the items are ordered by the section-rank table, least rank first,
\* and items of equal rank, also of different categories, keep the order
\* they have in the block.
C18_RankOrderStable ==
    pc = "return" =>
        \A j, k \in RenderedSections :
            RenderPos(j) < RenderPos(k) <=>
                \/ ClaimedRank(fnArg.labels[j]) < ClaimedRank(fnArg.labels[k])
                \/ /\ ClaimedRank(fnArg.labels[j]) = ClaimedRank(fnArg.labels[k])
                   /\ j < k

\* a block of a Documentation, a Tests and an Enhancements section was
\* rendered with the Enhancements item first and the two others, of equal
\* rank, in the order of the block
C18_EqualRankKeepsBlockOrder ==
    /\ pc = "return"
    /\ fnArg.labels = << <<"D","o","c","u","m","e","n","t","a","t","i","o","n">>, <<"T","e","s","t","s">>, <<"E","n","h","a","n","c","e","m","e","n","t","s">> >>
    /\ fnRes = <<"U","p","d","a","t","e","d"," ","d","o","c","s",","," ","a","d","d","e","d"," ","d","a","r","k"," ","m","o","d","e",","," ","a","n","d"," ","f","i","x","e","d"," ","c","r","a","s","h"," ","o","n"," ","s","a","v","e">>

\* the words the claim has the rendering put before an item of a category
ClaimedPrefix(label) ==
    CASE label = <<"B","u","g"," ","F","i","x","e","s">> -> <<"f","i","x","e","d"," ">>
      [] label = <<"I","m","p","r","o","v","e","m","e","n","t","s">> -> <<"i","m","p","r","o","v","e","d"," ">>
      [] label = <<"V","a","l","i","d","a","t","i","o","n">> -> <<"a","d","d","e","d"," ","v","a","l","i","d","a","t","i","o","n"," ","f","o","r"," ">>
      [] OTHER -> <<>>

\* the sentence fragment that starts at position i starts the sentence or
\* follows the words that join two fragments
FragmentStartsAt(i) ==
    \/ i = 1
    \/ ReadsAt(fnRes, i - 2, <<","," ">>)
    \/ ReadsAt(fnRes, i - 4, <<"a","n","d"," ">>)

\* C19: the rendering puts 'fixed ' before a Bug Fixes item, 'improved '
\* before an Improvements item, 'added validation for ' before a Validation
\* item and nothing before an item of any other category.
C19_PrefixOnlyForThreeCategories ==
    pc = "return" =>
        \A k \in RenderedSections :
            LET prefix == ClaimedPrefix(fnArg.labels[k])
            IN  /\ MatchesAtCI(fnRes, RenderPos(k) - Len(prefix), prefix)
                /\ FragmentStartsAt(RenderPos(k) - Len(prefix))

(***************************************************************************)
(* Properties of the block capture.                                        *)
(***************************************************************************)
\* the first line after the marker that ends the block by the claim, or
\* the line after the last
CaptureEnd ==
    MinOr({k \in 1..Len(fnArg.kinds) :
              fnArg.kinds[k] \in {"marker", "heading", "image", "comment"}},
          Len(fnArg.kinds) + 1)

\* C20: the block after the marker ends at the first other marker line,
\* heading of level 2 to 6, line reading 'image', or comment that closes
\* the auto-generated content, or at the end of the text: the summary
\* carries every item before that line, blank lines between them or not,
\* no item at or after it, and no comment line.
C20_CaptureStopsAtBoundary ==
    pc = "return" =>
        /\ \A k \in 1..Len(fnArg.kinds) :
               fnArg.kinds[k] = "item" =>
                   (Occurs(CaptureToken(k), fnRes) <=> k < CaptureEnd)
        /\ ~Occurs(<<"<","!","-","-">>, fnRes)

(***************************************************************************)
(* The heading-based extractor applied to bounded inputs.                  *)
(***************************************************************************)
\* the most '#' markers a generated heading line starts with
MaxHashes == 4

\* n '#' markers
RECURSIVE Hashes(_)
Hashes(n) == IF n = 0 THEN <<>> ELSE <<"#">> \o Hashes(n - 1)

\* the words a generated heading line reads: the four of
\* SUMMARY_HEADING_PATTERNS in several cases, and words that are none of them
HeadingWords ==
    { <<"s","u","m","m","a","r","y">>, <<"S","u","m","m","a","r","y">>, <<"S","U","M","M","A","R","Y">>, <<"t","l","d","r">>, <<"T","L","D","R">>, <<"t","l",";","d","r">>, <<"T","L",";","D","R">>,
      <<"o","v","e","r","v","i","e","w">>, <<"O","v","e","r","v","i","e","w">>, <<"N","o","t","e","s">>, <<"S","u","m","m","a","r","i","e","s">>, <<"T","L","-","D","R">> }

\* what follows the word on a generated heading line
HeadingTails == { <<>>, <<" ">>, <<" ","o","f"," ","c","h","a","n","g","e","s">>, <<":">> }

\* the text under the generated heading line
SectionText == <<"A","d","d","s"," ","t","h","e"," ","e","x","p","o","r","t"," ","b","u","t","t","o","n">>

\* the line of a generated heading
HeadingLine(h) == h.pad \o Hashes(h.hashes) \o h.gap \o h.word \o h.tail

\* a body of a heading line and one line of text under it
HeadingBody(h) == HeadingLine(h) \o <<"\n">> \o SectionText

HeadingShapes ==
    [pad : {<<>>, <<" ">>}, hashes : 0..MaxHashes, gap : {<<>>, <<" ">>},
     word : HeadingWords, tail : HeadingTails]

HeadingInputs ==
    {[shape |-> h, body |-> HeadingBody(h)] : h \in HeadingShapes}

\* the summary extractor of main() applied to a body
ExtractPreferred ==
    /\ pc = "call"
    /\ fnRes' = extractPreferredSummaryFromBody(fnArg.body)
    /\ pc' = "return"
    /\ UNCHANGED fnArg
    /\ UnchangedRun

InitHeading == InitCall(HeadingInputs)

NextHeading == ExtractPreferred

SpecHeading == InitHeading /\ [][NextHeading]_vars

\* the most lines of a generated body of sections
MaxSectionLines == 4

\* the lines of a generated body of sections: three recognized headings, a
\* heading of level 2 that is none of them, a heading of level 1, a line of
\* text and a blank line
SectionKinds == {"summary", "tldr", "overview", "other", "title", "text", "blank"}

\* line k of a generated body of sections
SectionLine(kind, k) ==
    CASE kind = "summary" -> <<"#","#"," ","S","u","m","m","a","r","y">>
      [] kind = "tldr" -> <<"#","#","#"," ","T","L","D","R">>
      [] kind = "overview" -> <<"#","#"," ","O","v","e","r","v","i","e","w">>
      [] kind = "other" -> <<"#","#"," ","D","e","t","a","i","l","s">>
      [] kind = "title" -> <<"#"," ","R","e","l","e","a","s","e">>
      [] kind = "text" -> <<"T","e","x","t"," ">> \o <<DigitChar(k)>>
      [] OTHER -> <<>>

SectionBody(kinds) ==
    join([k \in 1..Len(kinds) |-> SectionLine(kinds[k], k)], <<"\n">>)

SectionInputs ==
    {[kinds |-> ks, body |-> SectionBody(ks)] :
        ks \in UNION {[1..n -> SectionKinds] : n \in 1..MaxSectionLines}}

InitSection == InitCall(SectionInputs)

NextSection == ExtractPreferred

SpecSection == InitSection /\ [][NextSection]_vars

(***************************************************************************)
(* The summary extractors of the two scripts applied to the same body.     *)
(***************************************************************************)
\* a block whose label is written as an emphasized bullet
BulletedLabelBody ==
    join(<< MarkerLine, <<"-"," ","*","*","N","e","w"," ","F","e","a","t","u","r","e","s","*","*">>, <<"-"," ","A","d","d","e","d"," ","d","a","r","k"," ","m","o","d","e">> >>, <<"\n">>)

\* a block whose item ends in emphasis
EmphasizedItemBody ==
    join(<< MarkerLine, <<"N","e","w"," ","F","e","a","t","u","r","e","s">>, <<"-"," ","*","*","A","d","d","e","d"," ","d","a","r","k"," ","m","o","d","e","*","*">> >>, <<"\n">>)

\* the bodies both extractors are applied to: the blocks of one-item
\* sections, the blocks of captured lines, and the two above
CompareBodies ==
    {x.body : x \in RenderInputs} \cup {x.body : x \in CaptureInputs}
        \cup {BulletedLabelBody, EmphasizedItemBody}

CompareInputs == {[body |-> b] : b \in CompareBodies}

\* the summary extractor of the generator and that of the backfill script
\* applied to the same body
ExtractBoth ==
    /\ pc = "call"
    /\ fnRes' = [generator |-> extractPreferredSummaryFromBody(fnArg.body),
                 backfill  |-> backfill_extractPreferredSummaryFromBody(fnArg.body)]
    /\ pc' = "return"
    /\ UNCHANGED fnArg
    /\ UnchangedRun

InitCompare == InitCall(CompareInputs)

NextCompare == ExtractBoth

SpecCompare == InitCompare /\ [][NextCompare]_vars

(***************************************************************************)
(* Generator runs for the same version, one after another.                 *)
(***************************************************************************)
\* the years the clock goes through
MaxYears == 2

\* the document an earlier run wrote for a release without pull requests
EarlierDoc == toReleaseNotesMdx([r \in RepoSet |-> <<>>])

\* what fetchPull may return in one of several runs for the same version
RerunPRs ==
    [title : {FeatureTitle, FixTitle}, body : {Absent}, repo : {"revive-api"},
     mergedAt : {1}]

\* the files as a first run may find them: the document written or not, the
\* index with or without its group tag and the card of the version,
\* docs.json with or without a Releases group
InitRerun ==
    /\ pc = "loop"
    /\ grouped = [r \in RepoSet |-> <<>>]
    /\ log = <<>>
    /\ mdx \in {NoFile, EarlierDoc}
    /\ indexMdx \in [hasGroupTag : BOOLEAN, cards : {<<>>, <<Version>>}]
    /\ docsJson \in [hasReleases : BOOLEAN, groups : {<<>>}]
    /\ overwrite \in BOOLEAN
    /\ GeneratorOnly
    /\ fnArg = <<>>
    /\ fnRes = <<>>

\* the script is started again for the same version, with RELEASE_OVERWRITE
\* set or not: the files stay as the last run left them
Rerun ==
    /\ pc \in {"done", "error"}
    /\ pc' = "loop"
    /\ grouped' = [r \in RepoSet |-> <<>>]
    /\ log' = <<>>
    /\ overwrite' \in BOOLEAN
    /\ UNCHANGED <<mdx, indexMdx, docsJson, fnArg, fnRes, now, call, run>>

\* the year ends
NewYear ==
    /\ now < MaxYears
    /\ now' = now + 1
    /\ UNCHANGED <<pc, grouped, log, mdx, indexMdx, docsJson, overwrite,
                   fnArg, fnRes, call, run>>

NextRerun == ProcessItem(RerunPRs, 1) \/ Finish \/ Rerun \/ NewYear

SpecRerun == InitRerun /\ [][NextRerun]_vars

(***************************************************************************)
(* The backfill run: main() of the backfill script.                        *)
(***************************************************************************)
\* the releases getAllReleases returns
MaxReleases == 3

\* release.tag of release k
ReleaseTag(k) == <<"v", DigitChar(k)>>

\* release.date of a release without a date (null)
NoDate == <<>>

\* the year 'Unknown' of a version without a date
UnknownYear == 0

\* release.date of release k: none, or day k of the year
ReleaseDate(year, k) == IF year = UnknownYear THEN NoDate ELSE <<year, k>>

\* what getAllReleases may return: release k carries tag k and no date or
\* a date of one of three years
ReleaseLists ==
    {[k \in 1..MaxReleases |->
         [tag |-> ReleaseTag(k), date |-> ReleaseDate(years[k], k)]] :
        years \in [1..MaxReleases -> {UnknownYear, 2024, 2025, 2026}]}

\* the filter of main(): a release without a date, or of 2025 or 2026
InTargetYears(r) == r.date = NoDate \/ (r.date[1] >= 2025 /\ r.date[1] <= 2026)

\* (b.date || '').localeCompare(a.date || '') as a number to compare: a
\* release without a date sorts last
DateRank(date) == IF date = NoDate THEN 0 ELSE date[1] * 1000 + date[2]

\* generatedVersions.sort by date, newest first (the sort is stable)
RECURSIVE SortByDateDesc(_)
SortByDateDesc(versions) ==
    IF versions = <<>> THEN <<>>
    ELSE SelectSeq(versions,
                   LAMBDA v : \A i \in 1..Len(versions) :
                       DateRank(v.date) >= DateRank(versions[i].date))
            \o SortByDateDesc(
                   SelectSeq(versions,
                             LAMBDA v : \E i \in 1..Len(versions) :
                                 DateRank(v.date) < DateRank(versions[i].date)))

\* the year group of a listed version: its year, or 'Unknown'
YearOf(date) == IF date = NoDate THEN UnknownYear ELSE date[1]

\* the year groups, newest first: 'Unknown' sorts before every year
YearsDesc == <<UnknownYear, 2026, 2025>>

\* the pages of the versions of one year, in the order of the list
PagesOfYear(versions, year) ==
    [i \in 1..Len(SelectSeq(versions, LAMBDA v : YearOf(v.date) = year)) |->
        SelectSeq(versions, LAMBDA v : YearOf(v.date) = year)[i].version]

\* the year groups from position k of YearsDesc on; a year without a
\* version has no group
RECURSIVE YearGroupsFrom(_, _)
YearGroupsFrom(versions, k) ==
    IF k > Len(YearsDesc) THEN <<>>
    ELSE (IF PagesOfYear(versions, YearsDesc[k]) = <<>> THEN <<>>
          ELSE <<[group |-> YearsDesc[k],
                  pages |-> PagesOfYear(versions, YearsDesc[k])]>>)
            \o YearGroupsFrom(versions, k + 1)

\* updateDocsJson of the backfill script: the year groups are rebuilt from
\* the listed versions; nothing happens without a Releases group
backfill_updateDocsJson(docs, versions) ==
    IF ~docs.hasReleases THEN docs
    ELSE [docs EXCEPT !.groups = YearGroupsFrom(versions, 1)]

\* the index shows this many cards
MaxCards == 10

\* updateIndexMdx of the backfill script: the index is written anew with the
\* cards of the first listed versions
backfill_updateIndexMdx(versions) ==
    [hasGroupTag |-> TRUE,
     cards |-> [i \in 1..(IF Len(versions) < MaxCards THEN Len(versions) ELSE MaxCards) |->
                   versions[i].version]]

\* generatedVersions.push({ version, date: untilDate })
Listed(r, release) ==
    Append(r.generatedVersions, [version |-> release.tag, date |-> release.date])

\* the turn for a release whose file exists: it is listed and nothing else
SkipExisting(r, release) ==
    [r EXCEPT !.next = @ + 1, !.generatedVersions = Listed(r, release)]

\* the turn for a release whose file was written, after every pull request
\* was fetched or after the fetch of one failed with a warning
WriteRelease(r, release, warning) ==
    [r EXCEPT !.next = @ + 1,
              !.fetched = @ \cup {release.tag},
              !.disk = @ \cup {release.tag},
              !.written = @ \cup {release.tag},
              !.warned = @ \cup (IF warning THEN {release.tag} ELSE {}),
              !.generatedVersions = Listed(r, release)]

\* DropFailed with the release listed all the same
ListFailed(r, release) ==
    [r EXCEPT !.next = @ + 1,
              !.fetched = @ \cup {release.tag},
              !.failed = @ \cup {release.tag},
              !.generatedVersions = Listed(r, release)]

\* the turn for a release whose processing raised an error: the error is
\* reported and the loop goes on
DropFailed(r, release) ==
    [r EXCEPT !.next = @ + 1,
              !.fetched = @ \cup {release.tag},
              !.failed = @ \cup {release.tag}]

\* the turn of the loop for a release whose file does not exist
GenerateRelease(r, release, outcome) ==
    CASE outcome = "error" -> DropFailed(r, release)
      [] outcome = "warning" -> WriteRelease(r, release, TRUE)
      [] OTHER -> WriteRelease(r, release, FALSE)

\* the releases are fetched and filtered; fnArg is what getAllReleases
\* returned
StartBackfill ==
    /\ pc = "start"
    /\ run' = [run EXCEPT !.targetReleases = SelectSeq(fnArg, InTargetYears),
                          !.next = 1]
    /\ pc' = "release"
    /\ UNCHANGED <<grouped, log, mdx, indexMdx, docsJson, overwrite, fnArg,
                   fnRes, now, call>>

\* one turn of the loop of main() over the releases
ProcessRelease ==
    /\ pc = "release"
    /\ run.next <= Len(run.targetReleases)
    /\ IF run.targetReleases[run.next].tag \in run.disk
       THEN run' = SkipExisting(run, run.targetReleases[run.next])
       ELSE \E outcome \in {"written", "warning", "error"} :
                run' = GenerateRelease(run, run.targetReleases[run.next], outcome)
    /\ UNCHANGED <<pc, grouped, log, mdx, indexMdx, docsJson, overwrite, fnArg,
                   fnRes, now, call>>

\* the end of main(): the list is sorted and handed to the two updates
FinishBackfill ==
    /\ pc = "release"
    /\ run.next > Len(run.targetReleases)
    /\ run' = [run EXCEPT !.generatedVersions = SortByDateDesc(@)]
    /\ docsJson' = backfill_updateDocsJson(docsJson, run'.generatedVersions)
    /\ indexMdx' = backfill_updateIndexMdx(run'.generatedVersions)
    /\ pc' = "done"
    /\ UNCHANGED <<grouped, log, mdx, overwrite, fnArg, fnRes, now, call>>

\* a run over the releases of ReleaseLists with some files written before
InitBackfill ==
    /\ pc = "start"
    /\ fnArg \in ReleaseLists
    /\ run \in {[NoRun EXCEPT !.disk = d] :
                   d \in SUBSET {ReleaseTag(k) : k \in 1..MaxReleases}}
    /\ docsJson \in [hasReleases : BOOLEAN, groups : {<<>>}]
    /\ indexMdx = [hasGroupTag |-> TRUE, cards |-> <<>>]
    /\ mdx = NoFile
    /\ overwrite = FALSE
    /\ grouped = [r \in RepoSet |-> <<>>]
    /\ log = <<>>
    /\ fnRes = <<>>
    /\ now = 1
    /\ call = NoCall

NextBackfill == StartBackfill \/ ProcessRelease \/ FinishBackfill

SpecBackfill == InitBackfill /\ [][NextBackfill]_vars

(***************************************************************************)
(* ghJson of the backfill script: a request with retries.                  *)
(***************************************************************************)
\* the default of the parameter retries
DefaultRetries == 3

\* a header the response does not carry (headers.get gives null)
NoHeader == "null"

\* res.status of the rate-limited responses
RateLimited == {403, 429}

\* res.ok
IsOk(status) == status >= 200 /\ status <= 299

\* x-ratelimit-reset as the time from now to the reset, in milliseconds:
\* the reset lies in the past or a minute ahead
ResetIn(reset) == IF reset = "past" THEN 0 - 1000 ELSE 60000

\* the responses of the API: a success or a failure without rate-limit
\* headers, or a rate-limited response with or without each header
Responses ==
    [status : {200, 404, 500}, reset : {NoHeader}, remaining : {NoHeader}]
      \cup [status : RateLimited, reset : {NoHeader, "past", "later"},
            remaining : {NoHeader, "0", "5"}]

\* WaitsForReset without the test of x-ratelimit-remaining
ResetHeaderPresent(res) == res.reset # NoHeader

\* resetHeader && (remaining === '0' || remaining === null)
WaitsForReset(res) ==
    res.reset # NoHeader /\ (res.remaining = "0" \/ res.remaining = NoHeader)

\* Math.max(resetTime - Date.now(), 0) + 5000
ResetWaitMs(res) ==
    (IF ResetIn(res.reset) > 0 THEN ResetIn(res.reset) ELSE 0) + 5000

\* Math.pow(2, attempt) * 10000
BackoffMs(attempt) == (2 ^ attempt) * 10000

\* the wait after a rate-limited response to the request of the attempt
WaitAfter(res, attempt) ==
    IF WaitsForReset(res)
    THEN [kind |-> "reset", ms |-> ResetWaitMs(res)]
    ELSE [kind |-> "backoff", ms |-> BackoffMs(attempt)]

\* throw new Error(`GitHub API error ${res.status}: ...`)
StatusError == <<"G","i","t","H","u","b"," ","A","P","I"," ","e","r","r","o","r">>

\* throw new Error(`GitHub API failed after ${retries} retries for ${url}`)
RetriesError == <<"G","i","t","H","u","b"," ","A","P","I"," ","f","a","i","l","e","d"," ","a","f","t","e","r"," ","r","e","t","r","i","e","s">>

\* the call after the response to its request
Received(c, res) ==
    [c EXCEPT !.statuses = Append(@, res.status),
              !.last = res,
              !.waits = IF res.status \in RateLimited
                        THEN Append(c.waits, WaitAfter(res, c.attempt))
                        ELSE c.waits,
              !.error = IF ~IsOk(res.status) /\ res.status \notin RateLimited
                        THEN StatusError ELSE c.error]

\* where the call is after the response
AfterResponse(res) ==
    IF IsOk(res.status) THEN "returned"
    ELSE IF res.status \in RateLimited THEN "wait"
    ELSE "raised"

\* one turn of the loop up to the response: the request is sent, a
\* successful response is returned, a rate-limited one starts a wait, any
\* other raises
Fetch ==
    /\ pc = "fetch"
    /\ call.attempt <= call.retries
    /\ \E res \in Responses :
           /\ call' = Received(call, res)
           /\ pc' = AfterResponse(res)
    /\ UNCHANGED <<grouped, log, mdx, indexMdx, docsJson, overwrite, fnArg,
                   fnRes, now, run>>

\* the wait ends and the loop goes to its next turn, or ends with the error
\* when the attempts are used up
Continue ==
    /\ pc = "wait"
    /\ IF call.attempt + 1 <= call.retries
       THEN /\ pc' = "fetch"
            /\ call' = [call EXCEPT !.attempt = call.attempt + 1]
       ELSE /\ pc' = "raised"
            /\ call' = [call EXCEPT !.attempt = call.attempt + 1,
                                    !.error = RetriesError]
    /\ UNCHANGED <<grouped, log, mdx, indexMdx, docsJson, overwrite, fnArg,
                   fnRes, now, run>>

InitGhJson ==
    /\ pc = "fetch"
    /\ call \in {[NoCall EXCEPT !.retries = n] : n \in 0..DefaultRetries}
    /\ run = NoRun
    /\ now = 1
    /\ FreshFiles
    /\ grouped = [r \in RepoSet |-> <<>>]
    /\ log = <<>>
    /\ fnArg = <<>>
    /\ fnRes = <<>>

NextGhJson == Fetch \/ Continue

\* the requests are answered and the waits end
SpecGhJson == InitGhJson /\ [][NextGhJson]_vars /\ WF_vars(NextGhJson)

(***************************************************************************)
(* Heading recognition, the two scripts side by side, and the runs.        *)
(***************************************************************************)
\* the generated line reads one of the four heading words and nothing else
ReadsHeadingWord(h) ==
    /\ toLowerCase(h.word) \in { <<"s","u","m","m","a","r","y">>, <<"t","l","d","r">>, <<"t","l",";","d","r">>, <<"o","v","e","r","v","i","e","w">> }
    /\ h.tail \in { <<>>, <<" ">> }

\* the section under the generated line was taken as the summary
Recognized == fnRes = SectionText

\* C21 as stated: a trimmed line is recognized as a summary heading exactly
\* when it reads Summary, TLDR, TL;DR or Overview in any case and nothing
\* else, after no '#' marker, 2 markers or 3 markers
C21_BareWordOrTwoThreeHashes ==
    pc = "return" =>
        (Recognized <=> /\ ReadsHeadingWord(fnArg.shape)
                        /\ fnArg.shape.hashes \in {0, 2, 3})

\* C21 amended: a trimmed line is recognized as a summary heading exactly
\* when it reads Summary, TLDR, TL;DR or Overview in any case and nothing
\* else after exactly 2 or 3 '#' markers; the bare word is not recognized
C21_TwoOrThreeHashesRequired ==
    pc = "return" =>
        (Recognized <=> /\ ReadsHeadingWord(fnArg.shape)
                        /\ fnArg.shape.hashes \in {2, 3})

\* the extractor was applied to the bare word 'Summary' over a line of text
\* and found no summary
C21_BareWordNotRecognized ==
    /\ pc = "return"
    /\ fnArg.body = join(<< <<"S","u","m","m","a","r","y">>, SectionText >>, <<"\n">>)
    /\ fnRes = <<>>

\* the kinds of line that read a recognized summary heading
RecognizedKinds == {"summary", "tldr", "overview"}

\* the kinds of line that are a markdown heading of level 2 to 6
HeadingKinds == {"summary", "tldr", "overview", "other"}

\* the normalized text of the lines after line i of the generated body up
\* to the next heading of level 2-6 or the end of the text
SectionAfter(kinds, i) ==
    LET end == MinOr({j \in (i + 1)..Len(kinds) : kinds[j] \in HeadingKinds},
                     Len(kinds) + 1)
    IN  normalizeSummaryText(
            join([k \in 1..(end - i - 1) |-> SectionLine(kinds[i + k], i + k)],
                 <<"\n">>))

\* the normalized section under the first line of the given kind, '' when
\* no line is of that kind
SectionUnderKind(kinds, kind) ==
    LET at == {i \in 1..Len(kinds) : kinds[i] = kind}
    IN  IF at = {} THEN <<>> ELSE SectionAfter(kinds, MinOf(at))

\* the normalized section under the recognized heading that comes first in
\* the document, '' when the document has none
SectionUnderFirstInDocument(kinds) ==
    LET at == {i \in 1..Len(kinds) : kinds[i] \in RecognizedKinds}
    IN  IF at = {} THEN <<>> ELSE SectionAfter(kinds, MinOf(at))

\* C22 as stated: the heading-based summary is the section under the
\* recognized heading that comes first in the document, up to the next
\* markdown heading of level 2-6 or the end of the text
C22_FirstHeadingInDocument ==
    pc = "return" => fnRes = SectionUnderFirstInDocument(fnArg.kinds)

\* C22 amended: the heading-based summary is the first non-empty normalized
\* section in the order Summary, TLDR, TL;DR, Overview of the heading words,
\* whatever the order of the headings in the document; for each word the
\* section is the one under the first line reading it, up to the next
\* markdown heading of level 2-6 or the end of the text
C22_FirstHeadingInPatternOrder ==
    pc = "return" =>
        fnRes = OrElse(SectionUnderKind(fnArg.kinds, "summary"),
                       OrElse(SectionUnderKind(fnArg.kinds, "tldr"),
                              SectionUnderKind(fnArg.kinds, "overview")))

\* the extractor was applied to '## Overview' over a line of text and
\* '## Summary' over another, and gave the line under '## Summary'
C22_SummaryBeforeEarlierOverview ==
    /\ pc = "return"
    /\ fnArg.kinds = <<"overview", "text", "summary", "text">>
    /\ fnRes = <<"T","e","x","t"," ","4">>

\* C23: for every pull-request body, the summary extractor of the backfill
\* script returns the same summary as that of the generator
C23_BackfillSameSummary ==
    pc = "return" => fnRes.backfill = fnRes.generator

\* the cards of the version in the index
CardsOfVersion ==
    Cardinality({i \in 1..Len(indexMdx.cards) : indexMdx.cards[i] = Version})

\* the page entries of the version in docs.json, over all year groups
PagesOfVersion ==
    Cardinality({ik \in (1..Len(docsJson.groups)) \X (1..MaxYears) :
                    /\ ik[2] <= Len(docsJson.groups[ik[1]].pages)
                    /\ docsJson.groups[ik[1]].pages[ik[2]] = Version})

\* a run that finds the document of the version while overwriting is off
\* ends in the error and leaves the document, the index and docs.json alone
RefusesToOverwrite ==
    (mdx # NoFile /\ ~overwrite) =>
        /\ mdx' = mdx
        /\ (pc = "loop" /\ pc' # "loop") =>
               /\ pc' = "error"
               /\ UNCHANGED <<indexMdx, docsJson>>

\* C24: a generator run never overwrites existing release notes unless
\* overwriting is on: it ends in the error and leaves the document, the
\* index and docs.json unchanged; runs that do write add at most one card to
\* the index and at most one page entry to docs.json, however often the
\* script is run for the version
C24_NoOverwriteAndOneEntry ==
    /\ [][RefusesToOverwrite]_vars
    /\ [](CardsOfVersion <= 1 /\ PagesOfVersion <= 1)

\* the versions on the list of the backfill run
ListedVersions ==
    {run.generatedVersions[i].version : i \in 1..Len(run.generatedVersions)}

\* the release the next turn of the loop is for has its file on disk
NextReleaseExists ==
    /\ pc = "release"
    /\ run.next <= Len(run.targetReleases)
    /\ run.targetReleases[run.next].tag \in run.disk

\* a turn for a release whose file exists fetches nothing and writes nothing
\* but lists the release
SkippedButListed ==
    NextReleaseExists =>
        /\ run'.fetched = run.fetched
        /\ run'.written = run.written
        /\ run'.disk = run.disk
        /\ run.targetReleases[run.next].tag \in
               {run'.generatedVersions[i].version :
                   i \in 1..Len(run'.generatedVersions)}

\* a turn that ends in an error goes on to the following release
ErrorGoesOn ==
    run'.failed # run.failed => pc' = "release" /\ run'.next = run.next + 1

\* C25: in a backfill run a release whose file exists is skipped (nothing is
\* fetched, nothing written) but listed; a release whose processing raised
\* an error is neither written nor listed and the loop goes on; every listed
\* version, so every version handed to the docs.json and index update, has
\* its file on disk
C25_ListedVersionsAreOnDisk ==
    /\ [][SkippedButListed /\ ErrorGoesOn]_vars
    /\ [](/\ run.failed \cap (run.disk \cup ListedVersions) = {}
          /\ ListedVersions \subseteq run.disk)

\* a run ended after one release was skipped, one written and one dropped
\* for an error
C25_SkippedWrittenAndFailed ==
    /\ pc = "done"
    /\ run.failed # {}
    /\ run.written # {}
    /\ ListedVersions \ run.written # {}
    /\ indexMdx.cards # <<>>

\* the call of ghJson is over
CallOver == pc \in {"returned", "raised"}

\* the requests before the last were all rate-limited
EarlierRateLimited ==
    \A i \in 1..(Len(call.statuses) - 1) : call.statuses[i] \in RateLimited

\* what C26 says of a call whatever the rule of the waits: at most
\* retries + 1 requests; the first successful response is returned; a
\* failure other than 403/429 raises with no further request; the error of
\* the used-up attempts comes after retries + 1 rate-limited responses
CallWithinRetries ==
    /\ Len(call.statuses) <= call.retries + 1
    /\ call.retries = DefaultRetries => Len(call.statuses) <= 4
    /\ CallOver => /\ call.statuses # <<>>
                   /\ EarlierRateLimited
    /\ pc = "returned" => IsOk(call.last.status)
    /\ (pc = "raised" /\ call.error = StatusError) =>
           ~IsOk(call.last.status) /\ call.last.status \notin RateLimited
    /\ (pc = "raised" /\ call.error = RetriesError) =>
           /\ Len(call.statuses) = call.retries + 1
           /\ call.last.status \in RateLimited
    /\ pc = "wait" => call.last.status \in RateLimited
    /\ ~CallOver => \A i \in 1..Len(call.statuses) :
                        call.statuses[i] \in RateLimited

\* the wait that follows the last response
LastWait == call.waits[Len(call.waits)]

\* C26 as stated: every call of ghJson ends after at most retries + 1
\* requests, returning the first success, raising at once on a failure other
\* than 403/429 and raising 'failed after retries' when the attempts are
\* used up; after 403/429 it waits until the reset whenever the reset header
\* is present and backs off exponentially otherwise
C26_ResetWaitWheneverHeaderPresent ==
    /\ [](CallWithinRetries)
    /\ [](pc = "wait" =>
            IF call.last.reset # NoHeader
            THEN LastWait.kind = "reset"
            ELSE LastWait = [kind |-> "backoff",
                             ms |-> (2 ^ call.attempt) * 10000])
    /\ [][CallOver => UNCHANGED call]_vars
    /\ <>CallOver

\* C26 amended: the same, but after 403/429 the call waits until the reset
\* only when the reset header is present and the remaining-requests header
\* is '0' or absent; with a reset header and requests remaining, as without
\* a reset header, it backs off exponentially
C26_ResetWaitWhenNoneRemaining ==
    /\ [](CallWithinRetries)
    /\ [](pc = "wait" =>
            IF /\ call.last.reset # NoHeader
               /\ call.last.remaining \in {"0", NoHeader}
            THEN LastWait.kind = "reset"
            ELSE LastWait = [kind |-> "backoff",
                             ms |-> (2 ^ call.attempt) * 10000])
    /\ [][CallOver => UNCHANGED call]_vars
    /\ <>CallOver

\* a call with the default retries raised 'failed after retries' after four
\* rate-limited responses, having backed off although a reset header was
\* present, and having waited for a reset
C26_FourRequestsThenRaised ==
    /\ pc = "raised"
    /\ call.retries = DefaultRetries
    /\ call.error = RetriesError
    /\ Len(call.statuses) = 4
    /\ call.last.reset # NoHeader
    /\ LastWait.kind = "backoff"
    /\ \E i \in 1..Len(call.waits) : call.waits[i].kind = "reset"

====
